---------------------------- MODULE Spec2Model ----------------------------
(***************************************************************************)
(* minadb: the interactive presentation and navigation engine.             *)
(*                                                                         *)
(* The results grid (internal/tui/results), the schema explorer            *)
(* (internal/tui/explorer) and their commands, as state machines driven by *)
(* one message at a time.  Text is a sequence of one-character strings so  *)
(* that widths, escaping and tokenising are computed, not assumed.         *)
(***************************************************************************)
EXTENDS Integers, Sequences, FiniteSets, TLC

(***************************************************************************)
(* Bounds of the model.                                                    *)
(***************************************************************************)
MaxCols == 2
MaxRows == 2
NavMaxCols == 3
NavMaxRows == 3
MaxVisibleRows == 2
MaxWidthSteps == 3
WidthStep == 16

(***************************************************************************)
(* Text helpers.                                                           *)
(***************************************************************************)
Max(a, b) == IF a > b THEN a ELSE b
Min(a, b) == IF a < b THEN a ELSE b

\* One display cell that is two columns wide and three bytes long (a CJK rune).
WideCh == "<wide>"

CharWidth(c) == IF c = WideCh THEN 2 ELSE 1
CharBytes(c) == IF c = WideCh THEN 3 ELSE 1

\* lipgloss.Width: the display width of the widest line of s.
RECURSIVE WidthFrom(_, _, _)
WidthFrom(s, line, widest) ==
  IF s = << >> THEN (IF line > widest THEN line ELSE widest)
  ELSE IF Head(s) = "\n"
    THEN WidthFrom(Tail(s), 0, IF line > widest THEN line ELSE widest)
    ELSE WidthFrom(Tail(s), line + CharWidth(Head(s)), widest)

Width(s) == WidthFrom(s, 0, 0)

RECURSIVE ByteLen(_)
ByteLen(s) == IF s = << >> THEN 0 ELSE CharBytes(Head(s)) + ByteLen(Tail(s))

Rep(c, n) == [i \in 1..n |-> c]

RECURSIVE Join(_, _)
Join(parts, sep) ==
  IF parts = << >> THEN << >>
  ELSE IF Len(parts) = 1 THEN parts[1]
  ELSE parts[1] \o sep \o Join(Tail(parts), sep)

RECURSIVE ReplaceAll(_, _, _)
ReplaceAll(s, c, by) ==
  IF s = << >> THEN << >>
  ELSE (IF Head(s) = c THEN by ELSE << Head(s) >>) \o ReplaceAll(Tail(s), c, by)

LowerLetters ==
  << "a", "b", "c", "d", "e", "f", "g", "h", "i", "j", "k", "l", "m",
     "n", "o", "p", "q", "r", "s", "t", "u", "v", "w", "x", "y", "z" >>
UpperLetters ==
  << "A", "B", "C", "D", "E", "F", "G", "H", "I", "J", "K", "L", "M",
     "N", "O", "P", "Q", "R", "S", "T", "U", "V", "W", "X", "Y", "Z" >>

LowerLetterSet ==
  { "a", "b", "c", "d", "e", "f", "g", "h", "i", "j", "k", "l", "m", "n", "o",
    "p", "q", "r", "s", "t", "u", "v", "w", "x", "y", "z" }
UpperLetterSet ==
  { "A", "B", "C", "D", "E", "F", "G", "H", "I", "J", "K", "L", "M", "N", "O",
    "P", "Q", "R", "S", "T", "U", "V", "W", "X", "Y", "Z" }

\* Each lower-case letter with its upper-case letter.
UpperOf ==
  "a" :> "A" @@ "b" :> "B" @@ "c" :> "C" @@ "d" :> "D" @@ "e" :> "E" @@
    "f" :> "F" @@ "g" :> "G" @@ "h" :> "H" @@ "i" :> "I" @@ "j" :> "J" @@
    "k" :> "K" @@ "l" :> "L" @@ "m" :> "M" @@ "n" :> "N" @@ "o" :> "O" @@
    "p" :> "P" @@ "q" :> "Q" @@ "r" :> "R" @@ "s" :> "S" @@ "t" :> "T" @@
    "u" :> "U" @@ "v" :> "V" @@ "w" :> "W" @@ "x" :> "X" @@ "y" :> "Y" @@
    "z" :> "Z"

ToUpperCh(c) == IF c \in LowerLetterSet THEN UpperOf[c] ELSE c

ToUpper(s) == [i \in 1..Len(s) |-> ToUpperCh(s[i])]

IsSpace(c) == c \in {" ", "\n", "\t", "\r"}

\* strings.Fields: the maximal runs of non-space characters, in order.
RECURSIVE FieldsFrom(_, _)
FieldsFrom(s, cur) ==
  IF s = << >> THEN (IF cur = << >> THEN << >> ELSE << cur >>)
  ELSE IF IsSpace(Head(s))
       THEN (IF cur = << >> THEN << >> ELSE << cur >>) \o FieldsFrom(Tail(s), << >>)
       ELSE FieldsFrom(Tail(s), Append(cur, Head(s)))

Fields(s) == FieldsFrom(s, << >>)

\* strings.TrimRight(s, cutset)
RECURSIVE TrimRight(_, _)
TrimRight(s, cutset) ==
  IF s # << >> /\ s[Len(s)] \in cutset
  THEN TrimRight(SubSeq(s, 1, Len(s) - 1), cutset)
  ELSE s

(***************************************************************************)
(* String literals of the results package.                                 *)
(***************************************************************************)
StrNothingToCopy ==
  << "N", "o", "t", "h", "i", "n", "g", " ", "t", "o", " ", "c", "o", "p", "y" >>
StrCopyFailed ==
  << "C", "o", "p", "y", " ", "f", "a", "i", "l", "e", "d", ":", " " >>
StrCopied ==
  << "C", "o", "p", "i", "e", "d", ":", " " >>
StrNoRowToCopy ==
  << "N", "o", " ", "r", "o", "w", " ", "t", "o", " ", "c", "o", "p", "y" >>
StrCopiedRowJSON ==
  << "C", "o", "p", "i", "e", "d", " ", "r", "o", "w", " ", "a", "s", " ", "J", "S", "O", "N" >>
StrCopiedRowCSV ==
  << "C", "o", "p", "i", "e", "d", " ", "r", "o", "w", " ", "a", "s", " ", "C", "S", "V" >>
StrCopiedRowText ==
  << "C", "o", "p", "i", "e", "d", " ", "r", "o", "w", " ", "a", "s", " ", "t", "e", "x", "t" >>
StrCannotFilter ==
  << "C", "a", "n", "n", "o", "t", " ", "f", "i", "l", "t", "e", "r", ":", " ",
     "n", "o", " ", "c", "e", "l", "l", " ", "s", "e", "l", "e", "c", "t", "e", "d" >>
StrExportingJSON ==
  << "E", "x", "p", "o", "r", "t", "i", "n", "g", " ", "J", "S", "O", "N", ".", ".", "." >>
StrExportingCSV ==
  << "E", "x", "p", "o", "r", "t", "i", "n", "g", " ", "C", "S", "V", ".", ".", "." >>
StrNull ==
  << "n", "u", "l", "l" >>
StrEllipsis ==
  << ".", ".", "." >>
StrIsNull ==
  << " ", "I", "S", " ", "N", "U", "L", "L" >>
StrSelectFrom ==
  << "S", "E", "L", "E", "C", "T", " ", "*", " ", "F", "R", "O", "M", " " >>
StrWhere ==
  << " ", "W", "H", "E", "R", "E", " " >>
StrEqQuote ==
  << " ", "=", " ", "'" >>
StrDeleteFrom ==
  << "-", "-", " ", "r", "e", "v", "i", "e", "w", " ", "b", "e", "f", "o", "r", "e", " ",
     "e", "x", "e", "c", "u", "t", "i", "n", "g", "!", "\n",
     "D", "E", "L", "E", "T", "E", " ", "F", "R", "O", "M", " " >>
StrAnd ==
  << " ", "A", "N", "D", " " >>
StrTablePlaceholder ==
  << "<", "t", "a", "b", "l", "e", ">" >>
StrFROM ==
  << "F", "R", "O", "M" >>
StrINTO ==
  << "I", "N", "T", "O" >>
StrUPDATE ==
  << "U", "P", "D", "A", "T", "E" >>

\* The text of the error a failed clipboard write reports (err.Error()).
ClipboardErrText ==
  << "c", "l", "i", "p", "b", "o", "a", "r", "d" >>


(***************************************************************************)
(* database.QueryResult values delivered to the grid.                      *)
(***************************************************************************)
ColumnPool ==
  << << "i", "d" >>,
     << "n", "a", "m", "e" >>,
     << "e", "m", "a", "i", "l" >>,
     << "n", "o", "t", "e" >>,
     << "t", "a", "g" >> >>

CellPool ==
  << << "1" >>,
     << "A", "n", "n" >>,
     StrNull,
     << >>,
     << "a", "'", "b" >>,
     Rep("x", 45),
     << "q", ",", "\"", "\n", WideCh >>,
     Rep("w", 10) >>

CellAt(r, c) == CellPool[(((r - 1) + 3 * (c - 1)) % Len(CellPool)) + 1]

\* postgres.Driver.ExecuteQuery: one cell per column in every row and
\* RowCount = len(Rows); a statement without columns returns no rows.
MkResult(nc, nr) ==
  [ isNil    |-> FALSE,
    Columns  |-> [c \in 1..nc |-> ColumnPool[c]],
    Rows     |-> [r \in 1..nr |-> [c \in 1..nc |-> CellAt(r, c)]],
    RowCount |-> nr ]

NilResult ==
  [ isNil |-> TRUE, Columns |-> << >>, Rows |-> << >>, RowCount |-> 0 ]

ResultsUpTo(maxCols, maxRows) ==
  { MkResult(nc, nr) : nc \in 1..maxCols, nr \in 0..maxRows } \cup { MkResult(0, 0) }

QueryResults == ResultsUpTo(MaxCols, MaxRows)
NavQueryResults == ResultsUpTo(NavMaxCols, NavMaxRows)

\* The SQL text the orchestrator may record as the query behind the result.
LastQueries ==
  { << >>,
    << "s", "e", "l", "e", "c", "t", " ", "*", " ", "f", "r", "o", "m", " ",
       "u", "s", "e", "r", "s", ";" >> }

\* Pane sizes: the unset size 0 of New, and sizes a layout can hand to SetSize.
PaneWidths == { WidthStep * k : k \in 0..MaxWidthSteps }
PaneHeights == {0} \cup { 8 + k : k \in 1..MaxVisibleRows }
\* layout() never sizes a pane before the terminal has a size.
GridWidths == { 2 * WidthStep }
GridHeights == { 9, 8 + MaxVisibleRows }

(***************************************************************************)
(* results.Model                                                           *)
(***************************************************************************)
ViewNormal == "ViewNormal"
ViewRecordDetail == "ViewRecordDetail"
ViewCopyRowPrompt == "ViewCopyRowPrompt"
ViewExportPrompt == "ViewExportPrompt"
ViewDeleteConfirm == "ViewDeleteConfirm"

ViewModes ==
  { ViewNormal, ViewRecordDetail, ViewCopyRowPrompt, ViewExportPrompt, ViewDeleteConfirm }

New ==
  [ result        |-> NilResult,
    err           |-> FALSE,
    width         |-> 0,
    height        |-> 0,
    focused       |-> FALSE,
    scrollY       |-> 0,
    cursorY       |-> 0,
    cursorX       |-> 0,
    colOffset     |-> 0,
    loading       |-> FALSE,
    colWidths     |-> << >>,
    viewMode      |-> ViewNormal,
    menuCursor    |-> 0,
    lastQuery     |-> << >>,
    statusMessage |-> << >> ]

\* A tea.Cmd returned by a handler; the nil command is NoCmd.
NoCmd == [ type |-> "none", text |-> << >> ]
\* editor.ExecuteQueryMsg: the event that makes the orchestrator run a query.
ExecuteQueryMsg(query) == [ type |-> "ExecuteQueryMsg", text |-> query ]
SetEditorQueryMsg(query) == [ type |-> "SetEditorQueryMsg", text |-> query ]
ExportFileCmd(format, payload) == [ type |-> format, text |-> payload ]

\* clipboard.WriteAll performed by a handler, if any.
NoClip == [ written |-> FALSE, text |-> << >> ]
ClipWrite(text) == [ written |-> TRUE, text |-> text ]

SetSize(m, w, h) == [m EXCEPT !.width = w, !.height = h]

SetFocused(m, f) == [m EXCEPT !.focused = f]

SetLastQuery(m, q) == [m EXCEPT !.lastQuery = q]

HasResult_ignoresColumns(m) == ~m.result.isNil

HasResult(m) == ~m.result.isNil /\ Len(m.result.Columns) > 0

ClampWidth(w) == IF w < 8 THEN 8 ELSE IF w > 40 THEN 40 ELSE w

RECURSIVE MaxCellWidth(_, _, _)
MaxCellWidth(rows, i, acc) ==
  IF rows = << >> THEN acc
  ELSE MaxCellWidth(Tail(rows), i,
         IF i <= Len(Head(rows)) /\ Width(Head(rows)[i]) > acc
         THEN Width(Head(rows)[i]) ELSE acc)

\* The variant measures the header and the first row only.
calculateColumnWidths_firstRow(m) ==
  IF m.result.isNil \/ Len(m.result.Columns) = 0
  THEN [m EXCEPT !.colWidths = << >>]
  ELSE [m EXCEPT !.colWidths =
          [i \in 1..Len(m.result.Columns) |->
             ClampWidth(MaxCellWidth(SubSeq(m.result.Rows, 1, Min(1, Len(m.result.Rows))),
                                     i, Width(m.result.Columns[i])))]]

calculateColumnWidths(m) ==
  IF m.result.isNil \/ Len(m.result.Columns) = 0
  THEN [m EXCEPT !.colWidths = << >>]
  ELSE [m EXCEPT !.colWidths =
          [i \in 1..Len(m.result.Columns) |->
             ClampWidth(MaxCellWidth(m.result.Rows, i, Width(m.result.Columns[i])))]]

SetResult_keepsOffset(m, r) ==
  calculateColumnWidths(
    [m EXCEPT !.result = r, !.err = FALSE, !.scrollY = 0, !.cursorY = 0,
              !.cursorX = 0, !.loading = FALSE,
              !.viewMode = ViewNormal, !.menuCursor = 0, !.statusMessage = << >>])

\* The variant leaves the cursor where it was.
SetResult_keepsCursor(m, r) ==
  calculateColumnWidths(
    [m EXCEPT !.result = r, !.err = FALSE, !.scrollY = 0,
              !.colOffset = 0, !.loading = FALSE,
              !.viewMode = ViewNormal, !.menuCursor = 0, !.statusMessage = << >>])

SetResult(m, r) ==
  calculateColumnWidths(
    [m EXCEPT !.result = r, !.err = FALSE, !.scrollY = 0, !.cursorY = 0,
              !.cursorX = 0, !.colOffset = 0, !.loading = FALSE,
              !.viewMode = ViewNormal, !.menuCursor = 0, !.statusMessage = << >>])

SetError(m) ==
  [m EXCEPT !.err = TRUE, !.result = NilResult, !.scrollY = 0, !.cursorY = 0,
            !.cursorX = 0, !.colOffset = 0, !.loading = FALSE,
            !.viewMode = ViewNormal, !.menuCursor = 0, !.statusMessage = << >>]

visibleRows(m) == IF m.height - 8 < 1 THEN 1 ELSE m.height - 8

ensureVerticalWindow_noScrollDown(m) ==
  IF m.result.isNil \/ m.result.RowCount = 0
  THEN [m EXCEPT !.scrollY = 0, !.cursorY = 0]
  ELSE LET cy0 == IF m.cursorY < 0 THEN 0 ELSE m.cursorY
           cy  == IF cy0 >= m.result.RowCount THEN m.result.RowCount - 1 ELSE cy0
           visible == visibleRows(m)
           s1 == IF cy < m.scrollY THEN cy ELSE m.scrollY
           maxScroll == Max(0, m.result.RowCount - visible)
           s3 == IF s1 > maxScroll THEN maxScroll ELSE s1
       IN  [m EXCEPT !.cursorY = cy, !.scrollY = s3]

ensureVerticalWindow(m) ==
  IF m.result.isNil \/ m.result.RowCount = 0
  THEN [m EXCEPT !.scrollY = 0, !.cursorY = 0]
  ELSE LET cy0 == IF m.cursorY < 0 THEN 0 ELSE m.cursorY
           cy  == IF cy0 >= m.result.RowCount THEN m.result.RowCount - 1 ELSE cy0
           visible == visibleRows(m)
           s1 == IF cy < m.scrollY THEN cy ELSE m.scrollY
           s2 == IF cy >= s1 + visible THEN cy - visible + 1 ELSE s1
           maxScroll == Max(0, m.result.RowCount - visible)
           s3 == IF s2 > maxScroll THEN maxScroll ELSE s2
       IN  [m EXCEPT !.cursorY = cy, !.scrollY = s3]

RECURSIVE PackColumns_noLimit(_, _, _, _, _, _)
PackColumns_noLimit(colWidths, available, start, i, end, total) ==
  IF i > Len(colWidths) THEN end
  ELSE PackColumns_noLimit(colWidths, available, start, i + 1, i, total + colWidths[i] + 3)

\* The loop of visibleColumnRange: columns i.. are packed while they fit.
RECURSIVE PackColumns(_, _, _, _, _, _)
PackColumns(colWidths, available, start, i, end, total) ==
  IF i > Len(colWidths) THEN end
  ELSE LET colWidth == colWidths[i] + 3
       IN  IF end > start /\ total + colWidth > available
           THEN end
           ELSE PackColumns(colWidths, available, start, i + 1, i, total + colWidth)

\* (from, to) as Go indices: the window is the columns from .. to-1.
visibleColumnRange(m) ==
  IF m.result.isNil \/ Len(m.result.Columns) = 0 THEN << 0, 0 >>
  ELSE IF m.colOffset >= Len(m.result.Columns) THEN << 0, Len(m.result.Columns) >>
  ELSE LET available == Max(20, m.width - 4)
           start == Max(0, m.colOffset)
           end == PackColumns(m.colWidths, available, start, start + 1, start, 1)
       IN  IF end = start
           THEN << start, Min(start + 1, Len(m.result.Columns)) >>
           ELSE << start, end >>

RECURSIVE ScrollRightUntilVisible(_)
ScrollRightUntilVisible(m) ==
  IF m.colOffset < Len(m.result.Columns)
  THEN IF m.cursorX < visibleColumnRange(m)[2]
       THEN m
       ELSE ScrollRightUntilVisible([m EXCEPT !.colOffset = @ + 1])
  ELSE m

ensureHorizontalWindow_noScrollLeft(m) ==
  IF m.result.isNil \/ Len(m.result.Columns) = 0 THEN m
  ELSE LET cx0 == IF m.cursorX < 0 THEN 0 ELSE m.cursorX
           cx  == IF cx0 >= Len(m.result.Columns) THEN Len(m.result.Columns) - 1 ELSE cx0
       IN  ScrollRightUntilVisible([m EXCEPT !.cursorX = cx])

ensureHorizontalWindow(m) ==
  IF m.result.isNil \/ Len(m.result.Columns) = 0 THEN m
  ELSE LET cx0 == IF m.cursorX < 0 THEN 0 ELSE m.cursorX
           cx  == IF cx0 >= Len(m.result.Columns) THEN Len(m.result.Columns) - 1 ELSE cx0
           off == IF cx < m.colOffset THEN cx ELSE m.colOffset
       IN  ScrollRightUntilVisible([m EXCEPT !.cursorX = cx, !.colOffset = off])


(***************************************************************************)
(* actions.go: cell access, copy, filter, delete, export.                  *)
(***************************************************************************)
\* What a handler hands back: the model, the command and the clipboard write.
Ret(m, cmd, clip) == [ m |-> m, cmd |-> cmd, clip |-> clip ]

getCellValueAt(m, row, col) ==
  IF m.result.isNil \/ row < 0 \/ row >= Len(m.result.Rows) THEN << >>
  ELSE IF col < 0 \/ col >= Len(m.result.Rows[row + 1]) THEN << >>
  ELSE m.result.Rows[row + 1][col + 1]

getCellValue(m) == getCellValueAt(m, m.cursorY, m.cursorX)

getColumnName(m) ==
  IF m.result.isNil \/ m.cursorX < 0 \/ m.cursorX >= Len(m.result.Columns) THEN << >>
  ELSE m.result.Columns[m.cursorX + 1]

\* s[:n] by bytes: the longest prefix of whole characters within n bytes.
RECURSIVE TakeBytes(_, _)
TakeBytes(s, n) ==
  IF s = << >> \/ CharBytes(Head(s)) > n THEN << >>
  ELSE << Head(s) >> \o TakeBytes(Tail(s), n - CharBytes(Head(s)))

truncateStatus(s, maxLen) ==
  IF ByteLen(s) <= maxLen THEN s ELSE TakeBytes(s, maxLen - 3) \o StrEllipsis

\* clipOK: whether clipboard.WriteAll succeeds.
doCopyCellAt(m, row, col, clipOK) ==
  LET val == getCellValueAt(m, row, col)
  IN  IF val = << >>
      THEN Ret([m EXCEPT !.statusMessage = StrNothingToCopy], NoCmd, NoClip)
      ELSE IF ~clipOK
      THEN Ret([m EXCEPT !.statusMessage = StrCopyFailed \o ClipboardErrText], NoCmd, NoClip)
      ELSE Ret([m EXCEPT !.statusMessage = StrCopied \o truncateStatus(val, 40)],
               NoCmd, ClipWrite(val))

doCopyCell(m, clipOK) == doCopyCellAt(m, m.cursorY, m.cursorX, clipOK)

\* json.Marshal of a string: the escapes of the characters the model uses.
JSONEscapeCh(c) ==
  CASE c = "\"" -> << "\\", "\"" >>
    [] c = "\\" -> << "\\", "\\" >>
    [] c = "\n" -> << "\\", "n" >>
    [] c = "\r" -> << "\\", "r" >>
    [] c = "\t" -> << "\\", "t" >>
    [] c = "<"  -> << "\\", "u", "0", "0", "3", "c" >>
    [] c = ">"  -> << "\\", "u", "0", "0", "3", "e" >>
    [] c = "&"  -> << "\\", "u", "0", "0", "2", "6" >>
    [] OTHER    -> << c >>

RECURSIVE JSONEscape(_)
JSONEscape(s) ==
  IF s = << >> THEN << >> ELSE JSONEscapeCh(Head(s)) \o JSONEscape(Tail(s))

JSONString(s) == << "\"" >> \o JSONEscape(s) \o << "\"" >>

RECURSIVE rowToJSONFrom(_, _, _)
rowToJSONFrom(columns, row, i) ==
  IF i > Len(columns) THEN << >>
  ELSE (IF i > 1 THEN << ",", " " >> ELSE << >>)
       \o JSONString(columns[i]) \o << ":", " " >>
       \o (IF i <= Len(row)
           THEN (IF row[i] = StrNull THEN StrNull ELSE JSONString(row[i]))
           ELSE StrNull)
       \o rowToJSONFrom(columns, row, i + 1)

\* The variant writes every cell as a JSON string, the null sentinel too.
rowToJSON_quotesNull(columns, row) ==
  << "{" >>
  \o Join([i \in 1..Len(columns) |->
             JSONString(columns[i]) \o << ":", " " >>
             \o (IF i <= Len(row) THEN JSONString(row[i]) ELSE StrNull)], << ",", " " >>)
  \o << "}" >>

rowToJSON(columns, row) ==
  << "{" >> \o rowToJSONFrom(columns, row, 1) \o << "}" >>

\* encoding/csv Writer: quoting of one field and one record line.
csvFieldNeedsQuotes(field) ==
  IF field = << >> THEN FALSE
  ELSE IF field = << "\\", "." >> THEN TRUE
  ELSE IF \E i \in 1..Len(field) : field[i] \in {",", "\"", "\r", "\n"} THEN TRUE
  ELSE IsSpace(field[1])

csvField(field) ==
  IF csvFieldNeedsQuotes(field)
  THEN << "\"" >> \o ReplaceAll(field, "\"", << "\"", "\"" >>) \o << "\"" >>
  ELSE field

csvRecord(fields) ==
  Join([i \in 1..Len(fields) |-> csvField(fields[i])], << "," >>) \o << "\n" >>

rowInRange(m) ==
  ~(m.result.isNil \/ m.cursorY < 0 \/ m.cursorY >= Len(m.result.Rows))

doCopyRow(m, payload, okMessage, clipOK) ==
  IF ~rowInRange(m)
  THEN Ret([m EXCEPT !.statusMessage = StrNoRowToCopy], NoCmd, NoClip)
  ELSE IF ~clipOK
  THEN Ret([m EXCEPT !.statusMessage = StrCopyFailed \o ClipboardErrText], NoCmd, NoClip)
  ELSE Ret([m EXCEPT !.statusMessage = okMessage], NoCmd, ClipWrite(payload))

doCopyRowJSON(m, clipOK) ==
  doCopyRow(m,
    IF rowInRange(m) THEN rowToJSON(m.result.Columns, m.result.Rows[m.cursorY + 1]) ELSE << >>,
    StrCopiedRowJSON, clipOK)

doCopyRowCSV(m, clipOK) ==
  doCopyRow(m,
    IF rowInRange(m)
    THEN csvRecord(m.result.Columns) \o csvRecord(m.result.Rows[m.cursorY + 1]) ELSE << >>,
    StrCopiedRowCSV, clipOK)

doCopyRowText(m, clipOK) ==
  doCopyRow(m,
    IF rowInRange(m) THEN Join(m.result.Rows[m.cursorY + 1], << "\t" >>) ELSE << >>,
    StrCopiedRowText, clipOK)

RECURSIVE extractTableNameFrom(_, _)
extractTableNameFrom(tokens, i) ==
  IF i > Len(tokens) THEN StrTablePlaceholder
  ELSE IF ToUpper(tokens[i]) \in {StrFROM, StrINTO, StrUPDATE} /\ i + 1 <= Len(tokens)
          /\ TrimRight(tokens[i + 1], {";", ",", "(", ")"}) # << >>
       THEN TrimRight(tokens[i + 1], {";", ",", "(", ")"})
       ELSE extractTableNameFrom(tokens, i + 1)

extractTableName(query) ==
  IF query = << >> THEN StrTablePlaceholder
  ELSE extractTableNameFrom(Fields(query), 1)

\* The variant puts the value between the quotes as it is.
sqlCondition_noEscape(col, val) ==
  IF val = StrNull THEN col \o StrIsNull
  ELSE col \o StrEqQuote \o val \o << "'" >>

sqlCondition(col, val) ==
  IF val = StrNull THEN col \o StrIsNull
  ELSE col \o StrEqQuote \o ReplaceAll(val, "'", << "'", "'" >>) \o << "'" >>

doFilterByValue(m) ==
  LET col == getColumnName(m)
      val == getCellValue(m)
      table == extractTableName(m.lastQuery)
  IN  IF col = << >> \/ table = << >>
      THEN Ret([m EXCEPT !.statusMessage = StrCannotFilter], NoCmd, NoClip)
      ELSE Ret(m, SetEditorQueryMsg(StrSelectFrom \o table \o StrWhere \o sqlCondition(col, val)),
               NoClip)

doGenerateDelete_runs(m) ==
  IF ~rowInRange(m) THEN Ret(m, NoCmd, NoClip)
  ELSE Ret(m, ExecuteQueryMsg(StrDeleteFrom \o extractTableName(m.lastQuery)), NoClip)

\* The variant stops after the predicate of the first column.
doGenerateDelete_firstColumn(m) ==
  IF ~rowInRange(m) THEN Ret(m, NoCmd, NoClip)
  ELSE LET table == extractTableName(m.lastQuery)
           row == m.result.Rows[m.cursorY + 1]
           n == Min(1, Min(Len(m.result.Columns), Len(row)))
           conditions == [i \in 1..n |-> sqlCondition(m.result.Columns[i], row[i])]
       IN  Ret(m, SetEditorQueryMsg(StrDeleteFrom \o table \o StrWhere
                                      \o Join(conditions, StrAnd)), NoClip)

doGenerateDelete(m) ==
  IF ~rowInRange(m) THEN Ret(m, NoCmd, NoClip)
  ELSE LET table == extractTableName(m.lastQuery)
           row == m.result.Rows[m.cursorY + 1]
           n == Min(Len(m.result.Columns), Len(row))
           conditions == [i \in 1..n |-> sqlCondition(m.result.Columns[i], row[i])]
       IN  Ret(m, SetEditorQueryMsg(StrDeleteFrom \o table \o StrWhere
                                      \o Join(conditions, StrAnd)), NoClip)

RECURSIVE exportJSONRows(_, _, _)
exportJSONRows(columns, rows, ri) ==
  IF ri > Len(rows) THEN << >>
  ELSE (IF ri > 1 THEN << ",", "\n" >> ELSE << >>)
       \o << " ", " " >> \o rowToJSON(columns, rows[ri])
       \o exportJSONRows(columns, rows, ri + 1)

\* The variant exports the rows of the visible window only.
exportJSONCmd_visibleWindow(m) ==
  IF m.result.isNil THEN NoCmd
  ELSE ExportFileCmd("exportJSON",
         << "[", "\n" >>
         \o exportJSONRows(m.result.Columns,
                           SubSeq(m.result.Rows, m.scrollY + 1,
                                  Min(Len(m.result.Rows), m.scrollY + visibleRows(m))), 1)
         \o << "\n", "]" >>)

\* The command writes the file when the runtime runs it; text is the file's content.
exportJSONCmd(m) ==
  IF m.result.isNil THEN NoCmd
  ELSE ExportFileCmd("exportJSON",
         << "[", "\n" >> \o exportJSONRows(m.result.Columns, m.result.Rows, 1)
                         \o << "\n", "]" >>)

RECURSIVE csvRecords(_)
csvRecords(rows) ==
  IF rows = << >> THEN << >> ELSE csvRecord(Head(rows)) \o csvRecords(Tail(rows))

exportCSVCmd(m) ==
  IF m.result.isNil THEN NoCmd
  ELSE ExportFileCmd("exportCSV", csvRecord(m.result.Columns) \o csvRecords(m.result.Rows))


(***************************************************************************)
(* results.Model.Update and its per-mode key handlers.                     *)
(***************************************************************************)
Keys ==
  { "up", "k", "down", "j", "left", "h", "right", "l", "pgup", "pgdown",
    "home", "end", "g", "G", "c", "y", "e", "D", "enter", "f", "esc", "n", "t", "x" }

updateNormal(m, key, clipOK) ==
  CASE key \in {"up", "k"} ->
         IF ~m.result.isNil /\ m.cursorY > 0
         THEN Ret(ensureVerticalWindow([m EXCEPT !.cursorY = @ - 1]), NoCmd, NoClip)
         ELSE Ret(m, NoCmd, NoClip)
    [] key \in {"down", "j"} ->
         IF ~m.result.isNil /\ m.cursorY < m.result.RowCount - 1
         THEN Ret(ensureVerticalWindow([m EXCEPT !.cursorY = @ + 1]), NoCmd, NoClip)
         ELSE Ret(m, NoCmd, NoClip)
    [] key \in {"left", "h"} ->
         IF ~m.result.isNil /\ m.cursorX > 0
         THEN Ret(ensureHorizontalWindow([m EXCEPT !.cursorX = @ - 1]), NoCmd, NoClip)
         ELSE Ret(m, NoCmd, NoClip)
    [] key \in {"right", "l"} ->
         IF ~m.result.isNil /\ m.cursorX < Len(m.result.Columns) - 1
         THEN Ret(ensureHorizontalWindow([m EXCEPT !.cursorX = @ + 1]), NoCmd, NoClip)
         ELSE Ret(m, NoCmd, NoClip)
    [] key = "pgup" ->
         IF ~m.result.isNil
         THEN LET step == Max(1, visibleRows(m))
                  cy == IF m.cursorY - step < 0 THEN 0 ELSE m.cursorY - step
              IN  Ret(ensureVerticalWindow([m EXCEPT !.cursorY = cy]), NoCmd, NoClip)
         ELSE Ret(m, NoCmd, NoClip)
    [] key = "pgdown" ->
         IF ~m.result.isNil
         THEN LET step == Max(1, visibleRows(m))
                  cy == IF m.cursorY + step > m.result.RowCount - 1
                        THEN m.result.RowCount - 1 ELSE m.cursorY + step
              IN  Ret(ensureVerticalWindow([m EXCEPT !.cursorY = cy]), NoCmd, NoClip)
         ELSE Ret(m, NoCmd, NoClip)
    [] key = "home" ->
         Ret(ensureHorizontalWindow([m EXCEPT !.cursorX = 0]), NoCmd, NoClip)
    [] key = "end" ->
         IF ~m.result.isNil /\ Len(m.result.Columns) > 0
         THEN Ret(ensureHorizontalWindow([m EXCEPT !.cursorX = Len(m.result.Columns) - 1]),
                  NoCmd, NoClip)
         ELSE Ret(m, NoCmd, NoClip)
    [] key = "g" ->
         Ret(ensureVerticalWindow([m EXCEPT !.cursorY = 0]), NoCmd, NoClip)
    [] key = "G" ->
         IF ~m.result.isNil /\ m.result.RowCount > 0
         THEN Ret(ensureVerticalWindow([m EXCEPT !.cursorY = m.result.RowCount - 1]),
                  NoCmd, NoClip)
         ELSE Ret(m, NoCmd, NoClip)
    [] key = "c" -> doCopyCell(m, clipOK)
    [] key = "y" ->
         Ret(IF HasResult(m) THEN [m EXCEPT !.viewMode = ViewCopyRowPrompt] ELSE m,
             NoCmd, NoClip)
    [] key = "e" ->
         Ret(IF HasResult(m) THEN [m EXCEPT !.viewMode = ViewExportPrompt] ELSE m,
             NoCmd, NoClip)
    [] key = "D" ->
         Ret(IF HasResult(m) THEN [m EXCEPT !.viewMode = ViewDeleteConfirm] ELSE m,
             NoCmd, NoClip)
    [] key = "enter" ->
         Ret(IF HasResult(m)
             THEN [m EXCEPT !.viewMode = ViewRecordDetail, !.menuCursor = m.cursorX]
             ELSE m,
             NoCmd, NoClip)
    [] key = "f" ->
         IF HasResult(m) THEN doFilterByValue(m) ELSE Ret(m, NoCmd, NoClip)
    [] OTHER -> Ret(m, NoCmd, NoClip)

updateRecordDetail(m, key, clipOK) ==
  CASE key = "esc" -> Ret([m EXCEPT !.viewMode = ViewNormal], NoCmd, NoClip)
    [] key \in {"up", "k"} ->
         Ret(IF m.menuCursor > 0 THEN [m EXCEPT !.menuCursor = @ - 1] ELSE m, NoCmd, NoClip)
    [] key \in {"down", "j"} ->
         Ret(IF ~m.result.isNil /\ m.menuCursor < Len(m.result.Columns) - 1
             THEN [m EXCEPT !.menuCursor = @ + 1] ELSE m,
             NoCmd, NoClip)
    [] key = "c" -> doCopyCellAt(m, m.cursorY, m.menuCursor, clipOK)
    [] key = "f" ->
         IF ~m.result.isNil /\ m.menuCursor < Len(m.result.Columns)
         THEN LET r == doFilterByValue([m EXCEPT !.cursorX = m.menuCursor])
              IN  Ret([r.m EXCEPT !.cursorX = m.cursorX, !.viewMode = ViewNormal],
                      r.cmd, r.clip)
         ELSE Ret(m, NoCmd, NoClip)
    [] OTHER -> Ret(m, NoCmd, NoClip)

updateCopyRowPrompt_staysOpen(m, key, clipOK) ==
  CASE key = "esc" -> Ret([m EXCEPT !.viewMode = ViewNormal], NoCmd, NoClip)
    [] key = "j" -> doCopyRowJSON(m, clipOK)
    [] key = "c" -> doCopyRowCSV(m, clipOK)
    [] key = "t" -> doCopyRowText(m, clipOK)
    [] OTHER -> Ret(m, NoCmd, NoClip)

updateCopyRowPrompt(m, key, clipOK) ==
  CASE key = "esc" -> Ret([m EXCEPT !.viewMode = ViewNormal], NoCmd, NoClip)
    [] key = "j" ->
         LET r == doCopyRowJSON(m, clipOK)
         IN  Ret([r.m EXCEPT !.viewMode = ViewNormal], r.cmd, r.clip)
    [] key = "c" ->
         LET r == doCopyRowCSV(m, clipOK)
         IN  Ret([r.m EXCEPT !.viewMode = ViewNormal], r.cmd, r.clip)
    [] key = "t" ->
         LET r == doCopyRowText(m, clipOK)
         IN  Ret([r.m EXCEPT !.viewMode = ViewNormal], r.cmd, r.clip)
    [] OTHER -> Ret(m, NoCmd, NoClip)

updateExportPrompt(m, key) ==
  CASE key = "esc" -> Ret([m EXCEPT !.viewMode = ViewNormal], NoCmd, NoClip)
    [] key = "j" ->
         LET m1 == [m EXCEPT !.viewMode = ViewNormal, !.statusMessage = StrExportingJSON]
         IN  Ret(m1, exportJSONCmd(m1), NoClip)
    [] key = "c" ->
         LET m1 == [m EXCEPT !.viewMode = ViewNormal, !.statusMessage = StrExportingCSV]
         IN  Ret(m1, exportCSVCmd(m1), NoClip)
    [] OTHER -> Ret(m, NoCmd, NoClip)

updateDeleteConfirm_escConfirms(m, key) ==
  CASE key \in {"n"} -> Ret([m EXCEPT !.viewMode = ViewNormal], NoCmd, NoClip)
    [] key \in {"esc", "y", "enter"} -> doGenerateDelete([m EXCEPT !.viewMode = ViewNormal])
    [] OTHER -> Ret(m, NoCmd, NoClip)

updateDeleteConfirm(m, key) ==
  CASE key \in {"esc", "n"} -> Ret([m EXCEPT !.viewMode = ViewNormal], NoCmd, NoClip)
    [] key \in {"y", "enter"} -> doGenerateDelete([m EXCEPT !.viewMode = ViewNormal])
    [] OTHER -> Ret(m, NoCmd, NoClip)

\* Update for a tea.KeyMsg; any other message leaves the model as it is.
Update(m, key, clipOK) ==
  IF ~m.focused THEN Ret(m, NoCmd, NoClip)
  ELSE LET m0 == [m EXCEPT !.statusMessage = << >>]
       IN  CASE m.viewMode = ViewRecordDetail  -> updateRecordDetail(m0, key, clipOK)
             [] m.viewMode = ViewCopyRowPrompt -> updateCopyRowPrompt(m0, key, clipOK)
             [] m.viewMode = ViewExportPrompt  -> updateExportPrompt(m0, key)
             [] m.viewMode = ViewDeleteConfirm -> updateDeleteConfirm(m0, key)
             [] OTHER                          -> updateNormal(m0, key, clipOK)

(***************************************************************************)
(* explorer: the schema tree.  A *TreeNode is modelled by the node's path   *)
(* from the root (the child indices to follow), and the nilable root        *)
(* pointer by a sequence of zero or one node.                               *)
(***************************************************************************)
MaxSchemas == 2
MaxTreeTables == 1
NavMaxTreeTables == 2
MaxTreeColumns == 2
MaxInFlight == 2
MaxCounted == 2

NodeDatabase == "Database"
NodeSchema == "Schema"
NodeTable == "Table"
NodeColumn == "Column"

TreeNode(kind, name) ==
  [ Kind |-> kind, Name |-> name, Children |-> << >>, Expanded |-> FALSE,
    Loaded |-> FALSE, Schema |-> "", Table |-> "", DataType |-> "", RowCount |-> 0 ]

flatItem(node, depth) == [ node |-> node, depth |-> depth ]

ExplorerNew ==
  [ tree |-> << >>, items |-> << >>, cursor |-> 0, width |-> 0, height |-> 0,
    focused |-> FALSE, loading |-> FALSE ]

ExplorerSetFocused(m, f) == [m EXCEPT !.focused = f]

\* Dereference of a node pointer.
RECURSIVE NodeAt(_, _)
NodeAt(node, path) ==
  IF path = << >> THEN node ELSE NodeAt(node.Children[Head(path)], Tail(path))

\* Assignment through a node pointer.
RECURSIVE StoreAt(_, _, _)
StoreAt(node, path, new) ==
  IF path = << >> THEN new
  ELSE [node EXCEPT !.Children[Head(path)] = StoreAt(@, Tail(path), new)]

ItemNode(m, i) == NodeAt(m.tree[1], m.items[i + 1].node)

RECURSIVE flattenNode(_, _, _)
RECURSIVE flattenChildren(_, _, _, _)
flattenNode(node, depth, path) ==
  << flatItem(path, depth) >>
    \o (IF node.Expanded THEN flattenChildren(node, depth, path, 1) ELSE << >>)

flattenChildren(node, depth, path, i) ==
  IF i > Len(node.Children) THEN << >>
  ELSE flattenNode(node.Children[i], depth + 1, Append(path, i))
         \o flattenChildren(node, depth, path, i + 1)

flatten_noClamp(m) ==
  [m EXCEPT !.items = IF m.tree # << >> THEN flattenNode(m.tree[1], 0, << >>) ELSE << >>]

flatten(m) ==
  LET items == IF m.tree # << >> THEN flattenNode(m.tree[1], 0, << >>) ELSE << >>
  IN  [m EXCEPT !.items = items,
                !.cursor = IF m.cursor >= Len(items) THEN Max(0, Len(items) - 1)
                           ELSE m.cursor]

SetTree_schemasExpanded(m, schema) ==
  LET tableNode(s, t) == [TreeNode(NodeTable, t) EXCEPT !.Schema = s.Name, !.Loaded = FALSE]
      schemaNode(s) ==
        [TreeNode(NodeSchema, s.Name) EXCEPT
           !.Expanded = TRUE,
           !.Loaded = TRUE,
           !.Children = [j \in 1..Len(s.Tables) |-> tableNode(s, s.Tables[j])]]
      root ==
        [TreeNode(NodeDatabase, schema.Database) EXCEPT
           !.Expanded = TRUE,
           !.Loaded = TRUE,
           !.Children = [i \in 1..Len(schema.Schemas) |-> schemaNode(schema.Schemas[i])]]
  IN  [flatten([m EXCEPT !.tree = << root >>]) EXCEPT !.loading = FALSE]

SetTree(m, schema) ==
  LET tableNode(s, t) == [TreeNode(NodeTable, t) EXCEPT !.Schema = s.Name, !.Loaded = FALSE]
      schemaNode(s) ==
        [TreeNode(NodeSchema, s.Name) EXCEPT
           !.Expanded = FALSE,
           !.Loaded = TRUE,
           !.Children = [j \in 1..Len(s.Tables) |-> tableNode(s, s.Tables[j])]]
      root ==
        [TreeNode(NodeDatabase, schema.Database) EXCEPT
           !.Expanded = TRUE,
           !.Loaded = TRUE,
           !.Children = [i \in 1..Len(schema.Schemas) |-> schemaNode(schema.Schemas[i])]]
  IN  [flatten([m EXCEPT !.tree = << root >>]) EXCEPT !.loading = FALSE]

\* The path of the node visitTable hands to its callback, << >> when it
\* finds none: the first table of that name in the first schema of that name
\* that has one.
visitTable_anySchema(m, schema, table) ==
  IF m.tree = << >> THEN << >>
  ELSE
    LET root == m.tree[1]
        hits == UNION { { << i, j >> : j \in { j \in 1..Len(root.Children[i].Children) :
                                                  root.Children[i].Children[j].Name = table } } :
                        i \in 1..Len(root.Children) }
    IN  IF hits = {} THEN << >>
        ELSE CHOOSE p \in hits :
               \A q \in hits : p[1] < q[1] \/ (p[1] = q[1] /\ p[2] <= q[2])

visitTable(m, schema, table) ==
  IF m.tree = << >> THEN << >>
  ELSE
    LET root == m.tree[1]
        hits == UNION { { << i, j >> : j \in { j \in 1..Len(root.Children[i].Children) :
                                                  root.Children[i].Children[j].Name = table } } :
                        i \in { i \in 1..Len(root.Children) : root.Children[i].Name = schema } }
    IN  IF hits = {} THEN << >>
        ELSE CHOOSE p \in hits :
               \A q \in hits : p[1] < q[1] \/ (p[1] = q[1] /\ p[2] <= q[2])

SetColumns_noFlatten(m, schema, table, columns) ==
  IF m.tree = << >> THEN m
  ELSE
    LET p == visitTable(m, schema, table)
        columnNode(col) ==
          [TreeNode(NodeColumn, col.Name) EXCEPT
             !.Schema = schema, !.Table = table, !.DataType = col.DataType]
        visited(node) ==
          [node EXCEPT !.Children = [k \in 1..Len(columns) |-> columnNode(columns[k])],
                       !.Loaded = TRUE]
        root == m.tree[1]
    IN  [m EXCEPT !.tree =
           IF p = << >> THEN << root >>
           ELSE << StoreAt(root, p, visited(NodeAt(root, p))) >>]

SetColumns(m, schema, table, columns) ==
  IF m.tree = << >> THEN m
  ELSE
    LET p == visitTable(m, schema, table)
        columnNode(col) ==
          [TreeNode(NodeColumn, col.Name) EXCEPT
             !.Schema = schema, !.Table = table, !.DataType = col.DataType]
        visited(node) ==
          [node EXCEPT !.Children = [k \in 1..Len(columns) |-> columnNode(columns[k])],
                       !.Loaded = TRUE]
        root == m.tree[1]
    IN  flatten([m EXCEPT !.tree =
                   IF p = << >> THEN << root >>
                   ELSE << StoreAt(root, p, visited(NodeAt(root, p))) >>])

NoTable == [ schema |-> "", table |-> "", ok |-> FALSE ]

SelectedTable_columnName(m) ==
  IF m.cursor < 0 \/ m.cursor >= Len(m.items) THEN NoTable
  ELSE LET node == ItemNode(m, m.cursor)
       IN  CASE node.Kind = NodeTable -> [ schema |-> node.Schema, table |-> node.Name, ok |-> TRUE ]
             [] node.Kind = NodeColumn -> [ schema |-> node.Schema, table |-> node.Name, ok |-> TRUE ]
             [] OTHER -> NoTable

SelectedTable(m) ==
  IF m.cursor < 0 \/ m.cursor >= Len(m.items) THEN NoTable
  ELSE LET node == ItemNode(m, m.cursor)
       IN  CASE node.Kind = NodeTable -> [ schema |-> node.Schema, table |-> node.Name, ok |-> TRUE ]
             [] node.Kind = NodeColumn -> [ schema |-> node.Schema, table |-> node.Table, ok |-> TRUE ]
             [] OTHER -> NoTable

requestColumnsMsg_swapped(schema, table) ==
  [ type |-> "requestColumnsMsg", text |-> << >>, Schema |-> table, Table |-> schema ]

requestColumnsMsg(schema, table) ==
  [ type |-> "requestColumnsMsg", text |-> << >>, Schema |-> schema, Table |-> table ]

SetExpanded(m, path, e) ==
  flatten([m EXCEPT !.tree = << StoreAt(m.tree[1], path,
                                        [NodeAt(m.tree[1], path) EXCEPT !.Expanded = e]) >>])

toggleExpand_noFetch(m) ==
  IF m.cursor < 0 \/ m.cursor >= Len(m.items) THEN Ret(m, NoCmd, NoClip)
  ELSE
    LET path == m.items[m.cursor + 1].node
        node == ItemNode(m, m.cursor)
    IN  IF node.Kind = NodeColumn THEN Ret(m, NoCmd, NoClip)
        ELSE Ret(SetExpanded(m, path, ~node.Expanded), NoCmd, NoClip)

toggleExpand_ignoresLoaded(m) ==
  IF m.cursor < 0 \/ m.cursor >= Len(m.items) THEN Ret(m, NoCmd, NoClip)
  ELSE
    LET path == m.items[m.cursor + 1].node
        node == ItemNode(m, m.cursor)
    IN  IF node.Kind = NodeColumn THEN Ret(m, NoCmd, NoClip)
        ELSE IF node.Expanded THEN Ret(SetExpanded(m, path, FALSE), NoCmd, NoClip)
        ELSE IF node.Kind = NodeTable
          THEN Ret(SetExpanded(m, path, TRUE), requestColumnsMsg(node.Schema, node.Name), NoClip)
        ELSE Ret(SetExpanded(m, path, TRUE), NoCmd, NoClip)

toggleExpand(m) ==
  IF m.cursor < 0 \/ m.cursor >= Len(m.items) THEN Ret(m, NoCmd, NoClip)
  ELSE
    LET path == m.items[m.cursor + 1].node
        node == ItemNode(m, m.cursor)
    IN  IF node.Kind = NodeColumn THEN Ret(m, NoCmd, NoClip)
        ELSE IF node.Expanded THEN Ret(SetExpanded(m, path, FALSE), NoCmd, NoClip)
        ELSE IF node.Kind = NodeTable /\ ~node.Loaded
          THEN Ret(SetExpanded(m, path, TRUE), requestColumnsMsg(node.Schema, node.Name), NoClip)
        ELSE Ret(SetExpanded(m, path, TRUE), NoCmd, NoClip)

collapse_toggles(m) ==
  IF m.cursor < 0 \/ m.cursor >= Len(m.items) THEN Ret(m, NoCmd, NoClip)
  ELSE
    LET path == m.items[m.cursor + 1].node
        node == ItemNode(m, m.cursor)
    IN  IF node.Kind = NodeColumn THEN Ret(m, NoCmd, NoClip)
        ELSE Ret(SetExpanded(m, path, ~node.Expanded), NoCmd, NoClip)

collapse(m) ==
  IF m.cursor < 0 \/ m.cursor >= Len(m.items) THEN Ret(m, NoCmd, NoClip)
  ELSE
    LET path == m.items[m.cursor + 1].node
        node == ItemNode(m, m.cursor)
    IN  IF node.Expanded THEN Ret(SetExpanded(m, path, FALSE), NoCmd, NoClip)
        ELSE Ret(m, NoCmd, NoClip)

ExpandKeys == { "enter", "right", "l" }
CollapseKeys == { "left", "h" }
TreeKeys == { "up", "k", "down", "j", "x" } \cup ExpandKeys \cup CollapseKeys

ExplorerUpdate(m, key) ==
  IF ~m.focused THEN Ret(m, NoCmd, NoClip)
  ELSE CASE key \in { "up", "k" } ->
              Ret(IF m.cursor > 0 THEN [m EXCEPT !.cursor = m.cursor - 1] ELSE m, NoCmd, NoClip)
         [] key \in { "down", "j" } ->
              Ret(IF m.cursor < Len(m.items) - 1 THEN [m EXCEPT !.cursor = m.cursor + 1] ELSE m,
                  NoCmd, NoClip)
         [] key \in ExpandKeys -> toggleExpand(m)
         [] key \in CollapseKeys -> collapse(m)
         [] OTHER -> Ret(m, NoCmd, NoClip)

\* What the database can hand to the tree: schema hierarchies and column lists.
SchemaNames == << "public", "audit", "sales" >>
TableNames == << "users", "orders", "index" >>
TreeColumnPool ==
  << [ Name |-> "id", DataType |-> "integer" ],
     [ Name |-> "name", DataType |-> "text" ],
     [ Name |-> "total", DataType |-> "numeric" ] >>

RECURSIVE SumSeq(_)
SumSeq(s) == IF s = << >> THEN 0 ELSE Head(s) + SumSeq(Tail(s))

SchemaTree(counts) ==
  [ Database |-> "minadb",
    Schemas |-> [i \in 1..Len(counts) |->
                   [ Name |-> SchemaNames[i], Tables |-> SubSeq(TableNames, 1, counts[i]) ]] ]

SchemaTreesUpTo(tables) ==
  { SchemaTree(counts) :
      counts \in { c \in UNION { [1..n -> 0..Min(tables, Len(TableNames))] :
                                  n \in 0..Min(MaxSchemas, Len(SchemaNames)) } :
                   SumSeq(c) <= tables } }

SchemaTrees == SchemaTreesUpTo(MaxTreeTables)

NavSchemaTrees == SchemaTreesUpTo(NavMaxTreeTables)

ColumnLists ==
  { SubSeq(TreeColumnPool, 1, n) : n \in 0..Min(MaxTreeColumns, Len(TreeColumnPool)) }

Requests ==
  { [ schema |-> SchemaNames[i], table |-> TableNames[j] ] :
      i \in 1..Len(SchemaNames), j \in 1..Len(TableNames) }

(***************************************************************************)
(* editor: the SQL editor and its completion dropdown.  The textarea of    *)
(* the bubbles library is modelled by its value and the offset of its      *)
(* cursor; the text of the model is ASCII, one byte per character.         *)
(***************************************************************************)
\* The characters of the model in byte order, for sort.Strings.
ByteOrder ==
  << "\t", "\n", " ", "!", "\"", "#", "$", "%", "&", "'", "(", ")",
     "*", "+", ",", "-", ".", "/", "0", "1", "2", "3", "4", "5",
     "6", "7", "8", "9", ":", ";", "<", "=", ">", "?", "@", "A",
     "B", "C", "D", "E", "F", "G", "H", "I", "J", "K", "L", "M",
     "N", "O", "P", "Q", "R", "S", "T", "U", "V", "W", "X", "Y",
     "Z", "[", "\\", "]", "^", "_", "a", "b", "c", "d", "e",
     "f", "g", "h", "i", "j", "k", "l", "m", "n", "o", "p", "q",
     "r", "s", "t", "u", "v", "w", "x", "y", "z", "{", "|", "}",
     "~" >>

sqlKeywords ==
  { << "s", "e", "l", "e", "c", "t" >>, << "f", "r", "o", "m" >>,
    << "w", "h", "e", "r", "e" >>, << "a", "n", "d" >>, << "o", "r" >>,
    << "i", "n", "s", "e", "r", "t" >>, << "i", "n", "t", "o" >>,
    << "u", "p", "d", "a", "t", "e" >>, << "d", "e", "l", "e", "t", "e" >>,
    << "c", "r", "e", "a", "t", "e" >>, << "d", "r", "o", "p" >>,
    << "a", "l", "t", "e", "r" >>, << "t", "a", "b", "l", "e" >>,
    << "i", "n", "d", "e", "x" >>, << "j", "o", "i", "n" >>,
    << "i", "n", "n", "e", "r" >>, << "o", "u", "t", "e", "r" >>,
    << "l", "e", "f", "t" >>, << "r", "i", "g", "h", "t" >>,
    << "c", "r", "o", "s", "s" >>, << "o", "n" >>, << "n", "o", "t" >>,
    << "i", "n" >>, << "i", "s" >>, << "n", "u", "l", "l" >>,
    << "l", "i", "k", "e" >>, << "o", "r", "d", "e", "r" >>, << "b", "y" >>,
    << "g", "r", "o", "u", "p" >>, << "h", "a", "v", "i", "n", "g" >>,
    << "l", "i", "m", "i", "t" >>, << "o", "f", "f", "s", "e", "t" >>,
    << "a", "s" >>, << "d", "i", "s", "t", "i", "n", "c", "t" >>,
    << "c", "o", "u", "n", "t" >>, << "s", "u", "m" >>, << "a", "v", "g" >>,
    << "m", "i", "n" >>, << "m", "a", "x" >>,
    << "b", "e", "t", "w", "e", "e", "n" >>, << "e", "x", "i", "s", "t", "s" >>,
    << "c", "a", "s", "e" >>, << "w", "h", "e", "n" >>, << "t", "h", "e", "n" >>,
    << "e", "l", "s", "e" >>, << "e", "n", "d" >>,
    << "v", "a", "l", "u", "e", "s" >>, << "s", "e", "t" >>,
    << "b", "e", "g", "i", "n" >>, << "c", "o", "m", "m", "i", "t" >>,
    << "r", "o", "l", "l", "b", "a", "c", "k" >>, << "u", "n", "i", "o", "n" >>,
    << "a", "l", "l" >>, << "a", "s", "c" >>, << "d", "e", "s", "c" >>,
    << "p", "r", "i", "m", "a", "r", "y" >>, << "k", "e", "y" >>,
    << "f", "o", "r", "e", "i", "g", "n" >>,
    << "r", "e", "f", "e", "r", "e", "n", "c", "e", "s" >>,
    << "c", "a", "s", "c", "a", "d", "e" >>,
    << "r", "e", "s", "t", "r", "i", "c", "t" >>,
    << "d", "e", "f", "a", "u", "l", "t" >>, << "t", "r", "u", "e" >>,
    << "f", "a", "l", "s", "e" >>, << "i", "l", "i", "k", "e" >>,
    << "r", "e", "t", "u", "r", "n", "i", "n", "g" >> }

sqlKeywordList ==
  << << "S", "E", "L", "E", "C", "T" >>, << "F", "R", "O", "M" >>,
    << "W", "H", "E", "R", "E" >>, << "A", "N", "D" >>, << "O", "R" >>,
    << "I", "N", "S", "E", "R", "T" >>, << "I", "N", "T", "O" >>,
    << "U", "P", "D", "A", "T", "E" >>, << "D", "E", "L", "E", "T", "E" >>,
    << "C", "R", "E", "A", "T", "E" >>, << "D", "R", "O", "P" >>,
    << "A", "L", "T", "E", "R" >>, << "T", "A", "B", "L", "E" >>,
    << "I", "N", "D", "E", "X" >>, << "J", "O", "I", "N" >>,
    << "I", "N", "N", "E", "R" >>, << "O", "U", "T", "E", "R" >>,
    << "L", "E", "F", "T" >>, << "R", "I", "G", "H", "T" >>,
    << "C", "R", "O", "S", "S" >>, << "O", "N" >>, << "N", "O", "T" >>,
    << "I", "N" >>, << "I", "S" >>, << "N", "U", "L", "L" >>,
    << "L", "I", "K", "E" >>, << "I", "L", "I", "K", "E" >>,
    << "O", "R", "D", "E", "R" >>, << "B", "Y" >>, << "G", "R", "O", "U", "P" >>,
    << "H", "A", "V", "I", "N", "G" >>, << "L", "I", "M", "I", "T" >>,
    << "O", "F", "F", "S", "E", "T" >>, << "A", "S" >>,
    << "D", "I", "S", "T", "I", "N", "C", "T" >>, << "C", "O", "U", "N", "T" >>,
    << "S", "U", "M" >>, << "A", "V", "G" >>, << "M", "I", "N" >>,
    << "M", "A", "X" >>, << "B", "E", "T", "W", "E", "E", "N" >>,
    << "E", "X", "I", "S", "T", "S" >>, << "C", "A", "S", "E" >>,
    << "W", "H", "E", "N" >>, << "T", "H", "E", "N" >>, << "E", "L", "S", "E" >>,
    << "E", "N", "D" >>, << "V", "A", "L", "U", "E", "S" >>, << "S", "E", "T" >>,
    << "B", "E", "G", "I", "N" >>, << "C", "O", "M", "M", "I", "T" >>,
    << "R", "O", "L", "L", "B", "A", "C", "K" >>, << "U", "N", "I", "O", "N" >>,
    << "A", "L", "L" >>, << "A", "S", "C" >>, << "D", "E", "S", "C" >>,
    << "P", "R", "I", "M", "A", "R", "Y" >>, << "K", "E", "Y" >>,
    << "F", "O", "R", "E", "I", "G", "N" >>,
    << "R", "E", "F", "E", "R", "E", "N", "C", "E", "S" >>,
    << "C", "A", "S", "C", "A", "D", "E" >>,
    << "R", "E", "S", "T", "R", "I", "C", "T" >>,
    << "D", "E", "F", "A", "U", "L", "T" >>,
    << "R", "E", "T", "U", "R", "N", "I", "N", "G" >> >>

ByteRank ==
  [c \in { ByteOrder[i] : i \in 1..Len(ByteOrder) } |->
     CHOOSE i \in 1..Len(ByteOrder) : ByteOrder[i] = c]

ByteOf(c) == ByteRank[c]

\* a < b as Go compares strings: byte by byte, a proper prefix first.
RECURSIVE StrLess(_, _)
StrLess(a, b) ==
  IF b = << >> THEN FALSE
  ELSE IF a = << >> THEN TRUE
  ELSE IF Head(a) = Head(b) THEN StrLess(Tail(a), Tail(b))
  ELSE ByteOf(Head(a)) < ByteOf(Head(b))

\* The n least strings of S in ascending order, all of them when S has fewer.
RECURSIVE LeastStrings(_, _)
LeastStrings(S, n) ==
  IF S = {} \/ n = 0 THEN << >>
  ELSE LET least == CHOOSE x \in S : \A y \in S : ~StrLess(y, x)
       IN  << least >> \o LeastStrings(S \ {least}, n - 1)

\* sort.Strings of strings that differ from one another.
SortStrings(S) == LeastStrings(S, Cardinality(S))

\* Each upper-case letter with its lower-case letter.
LowerOf ==
  "A" :> "a" @@ "B" :> "b" @@ "C" :> "c" @@ "D" :> "d" @@ "E" :> "e" @@
    "F" :> "f" @@ "G" :> "g" @@ "H" :> "h" @@ "I" :> "i" @@ "J" :> "j" @@
    "K" :> "k" @@ "L" :> "l" @@ "M" :> "m" @@ "N" :> "n" @@ "O" :> "o" @@
    "P" :> "p" @@ "Q" :> "q" @@ "R" :> "r" @@ "S" :> "s" @@ "T" :> "t" @@
    "U" :> "u" @@ "V" :> "v" @@ "W" :> "w" @@ "X" :> "x" @@ "Y" :> "y" @@
    "Z" :> "z"

ToLowerCh(c) == IF c \in UpperLetterSet THEN LowerOf[c] ELSE c

ToLower(s) == [i \in 1..Len(s) |-> ToLowerCh(s[i])]

IsLetter(c) == c \in LowerLetterSet \/ c \in UpperLetterSet

IsDigit(c) == c \in { "0", "1", "2", "3", "4", "5", "6", "7", "8", "9" }

HasPrefix(s, prefix) == Len(prefix) <= Len(s) /\ SubSeq(s, 1, Len(prefix)) = prefix

RECURSIVE TrimLeftSpace(_)
TrimLeftSpace(s) == IF s # << >> /\ IsSpace(Head(s)) THEN TrimLeftSpace(Tail(s)) ELSE s

TrimSpace(s) == TrimLeftSpace(TrimRight(s, { " ", "\n", "\t", "\r" }))

\* textarea.Model: SetValue and Reset leave the cursor at the end of the value.
Textarea(value) == [ value |-> value, cursor |-> Len(value) ]

EditorNew ==
  [ textarea |-> Textarea(<< >>), width |-> 0, height |-> 0, focused |-> FALSE,
    tableNames |-> << >>, showingCompletions |-> FALSE, completions |-> << >>,
    completionIndex |-> 0, completionStartByte |-> 0 ]

EditorSetFocused(m, f) == [m EXCEPT !.focused = f]

Value(m) == m.textarea.value

SetQuery(m, query) == [m EXCEPT !.textarea = Textarea(query)]

SetTableNames(m, names) == [m EXCEPT !.tableNames = names]

\* The text of the table names the database hands out.
NameText ==
  [n \in { TableNames[i] : i \in 1..Len(TableNames) } |->
     CASE n = "users" -> << "u", "s", "e", "r", "s" >>
       [] n = "orders" -> << "o", "r", "d", "e", "r", "s" >>
       [] n = "index" -> << "i", "n", "d", "e", "x" >>]

\* The flat list of known table names of a schema hierarchy, in its order.
RECURSIVE AllTableNamesFrom(_)
AllTableNamesFrom(schemas) ==
  IF schemas = << >> THEN << >>
  ELSE [j \in 1..Len(Head(schemas).Tables) |-> NameText[Head(schemas).Tables[j]]]
         \o AllTableNamesFrom(Tail(schemas))

AllTableNames(tree) == AllTableNamesFrom(tree.Schemas)

cancelCompletion(m) ==
  [m EXCEPT !.showingCompletions = FALSE, !.completions = << >>,
            !.completionIndex = 0, !.completionStartByte = 0]

Clear(m) == cancelCompletion([m EXCEPT !.textarea = Textarea(<< >>)])

isIdentChar(c) == IsLetter(c) \/ IsDigit(c) \/ c = "_" \/ c = "."

isWordBoundary(c) == IsSpace(c) \/ c \in { ";", ",", ")", "(" }

\* The offset at which the run of identifier characters at the end of s begins.
RECURSIVE IdentifierStart(_, _)
IdentifierStart(s, i) ==
  IF i > 0 /\ isIdentChar(s[i]) THEN IdentifierStart(s, i - 1) ELSE i

extractTrailingIdentifier(s) ==
  LET i == IdentifierStart(s, Len(s))
  IN  [ prefix |-> SubSeq(s, i + 1, Len(s)), start |-> i ]

lastSQLToken(s) ==
  IF s = << >> THEN << >>
  ELSE LET parts == Fields(s)
       IN  IF Len(parts) = 0 THEN << >> ELSE parts[Len(parts)]

StrStar == << "*" >>
TableContexts ==
  { StrFROM, << "J", "O", "I", "N" >>, StrINTO, StrUPDATE, << "T", "A", "B", "L", "E" >> }
StrSELECT == << "S", "E", "L", "E", "C", "T" >>

\* The loop of getSuggestions over the candidates: what it appends to
\* filtered.  A candidate is appended when it is not empty, the prefix
\* matches it, and no earlier candidate has its lower-case form: seen holds
\* the lower-case form of every candidate the loop has passed.
FilterCandidates(candidates, prefixLower, prefixUpper) ==
  LET k == SubSeq([i \in 1..Len(candidates) |-> SubSeq(ToLower(candidates[i]), 1, Len(candidates[i]))],
                  1, Len(candidates))
  IN  { candidates[i] : i \in
          { i \in 1..Len(candidates) :
              /\ candidates[i] # << >>
              /\ \/ prefixLower = << >>
                 \/ HasPrefix(k[i], prefixLower)
                 \/ HasPrefix(ToUpper(candidates[i]), prefixUpper)
              /\ \A j \in 1..(i - 1) : k[j] # k[i] } }

Candidates_selectWithoutStar(m, last) ==
  IF last \in TableContexts THEN m.tableNames
  ELSE sqlKeywordList \o m.tableNames

Candidates(m, last) ==
  IF last \in TableContexts THEN m.tableNames
  ELSE IF last = StrSELECT THEN << StrStar >> \o sqlKeywordList \o m.tableNames
  ELSE sqlKeywordList \o m.tableNames

getSuggestions_uncapped(m, prefix, start) ==
  LET context == TrimSpace(ToUpper(SubSeq(Value(m), 1, start)))
  IN  SortStrings(FilterCandidates(Candidates(m, lastSQLToken(context)),
                                   ToLower(prefix), ToUpper(prefix)))

\* sort.Strings(filtered) cut to its first 10: the 10 least of filtered, ascending.
getSuggestions(m, prefix, start) ==
  LET context == TrimSpace(ToUpper(SubSeq(Value(m), 1, start)))
  IN  LeastStrings(FilterCandidates(Candidates(m, lastSQLToken(context)),
                                    ToLower(prefix), ToUpper(prefix)), 10)

openCompletions(m) ==
  LET id == extractTrailingIdentifier(Value(m))
      suggestions == getSuggestions(m, id.prefix, id.start)
  IN  IF Len(suggestions) = 0 THEN cancelCompletion(m)
      ELSE [m EXCEPT !.showingCompletions = TRUE, !.completions = suggestions,
                     !.completionIndex = 0, !.completionStartByte = id.start]

refreshCompletions_noClamp(m) ==
  IF ~m.showingCompletions THEN m
  ELSE
    LET id == extractTrailingIdentifier(Value(m))
        suggestions == getSuggestions(m, id.prefix, id.start)
    IN  IF Len(suggestions) = 0 THEN cancelCompletion(m)
        ELSE [m EXCEPT !.completions = suggestions, !.completionStartByte = id.start]

refreshCompletions(m) ==
  IF ~m.showingCompletions THEN m
  ELSE
    LET id == extractTrailingIdentifier(Value(m))
        suggestions == getSuggestions(m, id.prefix, id.start)
    IN  IF Len(suggestions) = 0 THEN cancelCompletion(m)
        ELSE [m EXCEPT !.completions = suggestions,
                       !.completionStartByte = id.start,
                       !.completionIndex = IF m.completionIndex >= Len(suggestions)
                                           THEN Len(suggestions) - 1
                                           ELSE m.completionIndex]

acceptCompletion(m) ==
  IF ~m.showingCompletions \/ Len(m.completions) = 0 THEN m
  ELSE IF m.completionStartByte < 0 \/ m.completionStartByte > Len(Value(m))
    THEN cancelCompletion(m)
  ELSE cancelCompletion(
         [m EXCEPT !.textarea = Textarea(SubSeq(Value(m), 1, m.completionStartByte)
                                           \o m.completions[m.completionIndex + 1])])

IsWordChar(c) == IsLetter(c) \/ c = "_"

\* for i >= 0 && isWordBoundary(runes[i]) { i-- }
RECURSIVE SkipBoundaries(_, _)
SkipBoundaries(s, i) ==
  IF i >= 1 /\ isWordBoundary(s[i]) THEN SkipBoundaries(s, i - 1) ELSE i

\* for i >= 0 && (unicode.IsLetter(runes[i]) || runes[i] == '_') { i-- }
RECURSIVE SkipWord(_, _)
SkipWord(s, i) ==
  IF i >= 1 /\ IsWordChar(s[i]) THEN SkipWord(s, i - 1) ELSE i

autoUppercaseLastWord(m) ==
  LET val == Value(m)
      n == Len(val)
      end == SkipBoundaries(val, n - 1)
      start == SkipWord(val, end) + 1
      word == SubSeq(val, start, end)
  IN  IF n < 2 THEN m
      ELSE IF ~isWordBoundary(val[n]) THEN m
      ELSE IF end < 1 THEN m
      ELSE IF start > end THEN m
      ELSE IF ToLower(word) \notin sqlKeywords THEN m
      ELSE [m EXCEPT !.textarea =
              Textarea(SubSeq(val, 1, start - 1) \o ToUpper(word) \o SubSeq(val, end + 1, n))]

flushWord(word, result) ==
  IF word = << >> THEN result
  ELSE IF ToLower(word) \in sqlKeywords THEN result \o ToUpper(word)
  ELSE result \o word

\* The variant lets either quote character close a literal.
RECURSIVE FormatFrom_anyQuoteCloses(_, _, _, _, _)
FormatFrom_anyQuoteCloses(s, word, result, inString, quote) ==
  IF s = << >> THEN flushWord(word, result)
  ELSE
    LET ch == Head(s)
    IN  IF ch \in { "'", "\"" } /\ ~inString
          THEN FormatFrom_anyQuoteCloses(Tail(s), << >>, Append(flushWord(word, result), ch),
                                         TRUE, ch)
        ELSE IF inString /\ ch \in { "'", "\"" }
          THEN FormatFrom_anyQuoteCloses(Tail(s), word, Append(result, ch), FALSE, quote)
        ELSE IF inString
          THEN FormatFrom_anyQuoteCloses(Tail(s), word, Append(result, ch), TRUE, quote)
        ELSE IF ~IsWordChar(ch)
          THEN FormatFrom_anyQuoteCloses(Tail(s), << >>, Append(flushWord(word, result), ch),
                                         FALSE, quote)
        ELSE FormatFrom_anyQuoteCloses(Tail(s), Append(word, ch), result, FALSE, quote)

\* The loop of formatKeywords over the characters of the value.
RECURSIVE FormatFrom(_, _, _, _, _)
FormatFrom(s, word, result, inString, quote) ==
  IF s = << >> THEN flushWord(word, result)
  ELSE
    LET ch == Head(s)
    IN  IF ch \in { "'", "\"" } /\ ~inString
          THEN FormatFrom(Tail(s), << >>, Append(flushWord(word, result), ch), TRUE, ch)
        ELSE IF inString /\ ch = quote
          THEN FormatFrom(Tail(s), word, Append(result, ch), FALSE, quote)
        ELSE IF inString
          THEN FormatFrom(Tail(s), word, Append(result, ch), TRUE, quote)
        ELSE IF ~IsWordChar(ch)
          THEN FormatFrom(Tail(s), << >>, Append(flushWord(word, result), ch), FALSE, quote)
        ELSE FormatFrom(Tail(s), Append(word, ch), result, FALSE, quote)

formatKeywords(m) ==
  IF Value(m) = << >> THEN m
  ELSE [m EXCEPT !.textarea = Textarea(FormatFrom(Value(m), << >>, << >>, FALSE, ""))]

\* The characters a key press can put into the textarea.
TypedChars == { ByteOrder[i] : i \in 1..Len(ByteOrder) } \ { "\t", "\n" }

\* Where the line of offset c begins and ends.
RECURSIVE LineStart(_, _)
LineStart(v, c) == IF c > 0 /\ v[c] # "\n" THEN LineStart(v, c - 1) ELSE c

RECURSIVE LineEnd(_, _)
LineEnd(v, c) == IF c < Len(v) /\ v[c + 1] # "\n" THEN LineEnd(v, c + 1) ELSE c

\* textarea.Update for a key press: typing, deleting and moving the cursor.
TextareaUpdate(ta, key) ==
  LET v == ta.value
      c == ta.cursor
      insert(ch) == [ value |-> SubSeq(v, 1, c) \o << ch >> \o SubSeq(v, c + 1, Len(v)),
                      cursor |-> c + 1 ]
      col == c - LineStart(v, c)
  IN  CASE key \in TypedChars -> insert(key)
        [] key = "enter" -> insert("\n")
        [] key = "backspace" ->
             IF c = 0 THEN ta
             ELSE [ value |-> SubSeq(v, 1, c - 1) \o SubSeq(v, c + 1, Len(v)), cursor |-> c - 1 ]
        [] key = "left" -> [ta EXCEPT !.cursor = Max(0, c - 1)]
        [] key = "right" -> [ta EXCEPT !.cursor = Min(Len(v), c + 1)]
        [] key = "up" ->
             IF LineStart(v, c) = 0 THEN ta
             ELSE LET above == LineStart(v, LineStart(v, c) - 1)
                  IN  [ta EXCEPT !.cursor = above + Min(col, LineStart(v, c) - 1 - above)]
        [] key = "down" ->
             IF LineEnd(v, c) = Len(v) THEN ta
             ELSE LET below == LineEnd(v, c) + 1
                  IN  [ta EXCEPT !.cursor = below + Min(col, LineEnd(v, below) - below)]
        [] OTHER -> ta

afterTextInput(m, key) ==
  LET upper == IF key \in { " ", "enter", ";" } THEN autoUppercaseLastWord(m) ELSE m
  IN  IF upper.showingCompletions THEN refreshCompletions(upper) ELSE upper

\* The bodies of the "up" (delta = -1) and "down" (delta = 1) cases of Update
\* while the dropdown is open.  The variant wraps around at both ends.
moveSelection_wraps(m, delta) ==
  [m EXCEPT !.completionIndex = (m.completionIndex + delta) % Len(m.completions)]

moveSelection(m, delta) ==
  IF delta < 0
    THEN IF m.completionIndex > 0
           THEN [m EXCEPT !.completionIndex = m.completionIndex - 1] ELSE m
    ELSE IF m.completionIndex < Len(m.completions) - 1
           THEN [m EXCEPT !.completionIndex = m.completionIndex + 1] ELSE m

EditorUpdate(m, key) ==
  LET typed == Ret(afterTextInput([m EXCEPT !.textarea = TextareaUpdate(m.textarea, key)], key),
                   NoCmd, NoClip)
      dropdown == m.showingCompletions /\ Len(m.completions) > 0
  IN  IF ~m.focused THEN Ret(m, NoCmd, NoClip)
      ELSE
        CASE key \in { "ctrl+@", "ctrl+space" } -> Ret(openCompletions(m), NoCmd, NoClip)
          [] key \in { "ctrl+e", "f5" } ->
               LET query == TrimSpace(Value(m))
               IN  IF query # << >> THEN Ret(cancelCompletion(m), ExecuteQueryMsg(query), NoClip)
                   ELSE Ret(m, NoCmd, NoClip)
          [] key = "ctrl+k" -> Ret(Clear(m), NoCmd, NoClip)
          [] key = "ctrl+l" -> Ret(formatKeywords(m), NoCmd, NoClip)
          [] key = "up" /\ dropdown -> Ret(moveSelection(m, -1), NoCmd, NoClip)
          [] key = "down" /\ dropdown -> Ret(moveSelection(m, 1), NoCmd, NoClip)
          [] key \in { "enter", "tab" } /\ m.showingCompletions ->
               Ret(acceptCompletion(m), NoCmd, NoClip)
          [] key = "esc" /\ m.showingCompletions -> Ret(cancelCompletion(m), NoCmd, NoClip)
          [] OTHER -> typed

(***************************************************************************)
(* The results pane as a state machine.                                    *)
(***************************************************************************)
VARIABLES
  results,   \* the results.Model held by the orchestrator
  cmd,       \* the tea.Cmd the last handler returned
  clip,      \* the clipboard write the last handler performed
  last,      \* the last message handled: operation, key and view mode at dispatch
  explorer,  \* the explorer.Model held by the orchestrator
  pending,   \* column fetches under way: how many per (schema, table)
  fetches,   \* per (schema, table): the fetch requests emitted for it since
             \* the last schema load, counted up to MaxCounted
  editor,    \* the editor.Model held by the orchestrator
  queries    \* the queries handed to executeQueryCmd, in the order issued,
             \* each with the outcome delivered for it so far

vars == << results, cmd, clip, last, explorer, pending, fetches, editor, queries >>

otherPanes == << explorer, pending, fetches, editor, queries >>

NoFetches == [r \in Requests |-> 0]

Op(name, key, mode) == [ op |-> name, key |-> key, mode |-> mode, arg |-> << >> ]

\* The same for a message that carries values: arg holds them.
OpArg(name, arg, mode) == [ op |-> name, key |-> "", mode |-> mode, arg |-> arg ]

Init ==
  /\ results = New
  /\ cmd = NoCmd
  /\ clip = NoClip
  /\ last = Op("New", "", ViewNormal)
  /\ explorer = ExplorerNew
  /\ pending = [r \in Requests |-> 0]
  /\ fetches = NoFetches
  /\ queries = << >>
  /\ editor = EditorNew

DoSetSize ==
  \E w \in GridWidths, h \in GridHeights :
    /\ results' = SetSize(results, w, h)
    /\ cmd' = NoCmd
    /\ clip' = NoClip
    /\ last' = Op("SetSize", "", results.viewMode)
    /\ UNCHANGED otherPanes

DoSetFocused ==
  \E f \in BOOLEAN :
    /\ results' = SetFocused(results, f)
    /\ cmd' = NoCmd
    /\ clip' = NoClip
    /\ last' = Op("SetFocused", "", results.viewMode)
    /\ UNCHANGED otherPanes

DoSetLastQuery ==
  \E q \in LastQueries :
    /\ results' = SetLastQuery(results, q)
    /\ cmd' = NoCmd
    /\ clip' = NoClip
    /\ last' = Op("SetLastQuery", "", results.viewMode)
    /\ UNCHANGED otherPanes

SetResultFrom(R) ==
  \E r \in R :
    /\ results' = SetResult(results, r)
    /\ cmd' = NoCmd
    /\ clip' = NoClip
    /\ last' = Op("SetResult", "", results.viewMode)
    /\ UNCHANGED otherPanes

DoSetResult == SetResultFrom(QueryResults)

DoSetError ==
  /\ results' = SetError(results)
  /\ cmd' = NoCmd
  /\ clip' = NoClip
  /\ last' = Op("SetError", "", results.viewMode)
  /\ UNCHANGED otherPanes

KeyFrom(K) ==
  \E key \in K, clipOK \in BOOLEAN :
    LET r == Update(results, key, clipOK)
    IN  /\ results' = r.m
        /\ cmd' = r.cmd
        /\ clip' = r.clip
        /\ last' = Op("Key", key, results.viewMode)
        /\ UNCHANGED otherPanes

DoKey == KeyFrom(Keys)

Next ==
  \/ DoSetSize
  \/ DoSetFocused
  \/ DoSetLastQuery
  \/ DoSetResult
  \/ DoSetError
  \/ DoKey

Spec == Init /\ [][Next]_vars

(***************************************************************************)
(* Navigation in a pane of fixed size: the focused grid after the layout   *)
(* has sized it, driven by results and the Normal-mode navigation keys.    *)
(***************************************************************************)
NavKeys ==
  { "up", "k", "down", "j", "left", "h", "right", "l", "pgup", "pgdown",
    "home", "end", "g", "G" }

InitNav ==
  /\ \E w \in PaneWidths, h \in PaneHeights :
       results = SetFocused(SetSize(New, w, h), TRUE)
  /\ cmd = NoCmd
  /\ clip = NoClip
  /\ last = Op("SetSize", "", ViewNormal)
  /\ explorer = ExplorerNew
  /\ pending = [r \in Requests |-> 0]
  /\ fetches = NoFetches
  /\ queries = << >>
  /\ editor = EditorNew

NavSetResult == SetResultFrom(NavQueryResults)

NavKey == KeyFrom(NavKeys)

NextNav ==
  \/ NavSetResult
  \/ NavKey

SpecNav == InitNav /\ [][NextNav]_vars

(***************************************************************************)
(* The schema tree as a state machine: the orchestrator routes keys to the *)
(* focused explorer, turns each requestColumnsMsg into a column fetch that  *)
(* runs in the background, and hands a fetch's columns to SetColumns when   *)
(* it succeeds.  A schema load replaces the tree; fetches already under way *)
(* survive it.                                                             *)
(***************************************************************************)
RECURSIVE SumOver(_, _)
SumOver(f, S) ==
  IF S = {} THEN 0
  ELSE LET r == CHOOSE r \in S : TRUE IN f[r] + SumOver(f, S \ {r})

InFlight == SumOver(pending, Requests)

Counted(n) == Min(n + 1, MaxCounted)

TreeSetFocused ==
  \E f \in BOOLEAN :
    /\ explorer' = ExplorerSetFocused(explorer, f)
    /\ cmd' = NoCmd
    /\ last' = Op("ExplorerSetFocused", "", results.viewMode)
    /\ UNCHANGED << pending, fetches, results, clip, editor, queries >>

SchemaLoaded ==
  \E t \in SchemaTrees :
    /\ explorer' = SetTree(explorer, t)
    /\ editor' = SetTableNames(editor, AllTableNames(t))
    /\ fetches' = NoFetches
    /\ cmd' = NoCmd
    /\ last' = OpArg("SetTree", << t >>, results.viewMode)
    /\ UNCHANGED << pending, results, clip, queries >>

TreeKey ==
  \E key \in TreeKeys :
    LET r == ExplorerUpdate(explorer, key)
        emits == r.cmd.type = "requestColumnsMsg"
        req == [ schema |-> r.cmd.Schema, table |-> r.cmd.Table ]
    IN  /\ emits => InFlight < MaxInFlight
        /\ explorer' = r.m
        /\ cmd' = r.cmd
        /\ pending' = IF emits THEN [pending EXCEPT ![req] = @ + 1] ELSE pending
        /\ fetches' = IF emits THEN [fetches EXCEPT ![req] = Counted(@)] ELSE fetches
        /\ last' = Op("ExplorerKey", key, results.viewMode)
        /\ UNCHANGED << results, clip, editor, queries >>

ColumnsLoaded ==
  \E r \in Requests, columns \in ColumnLists :
    /\ pending[r] > 0
    /\ explorer' = SetColumns(explorer, r.schema, r.table, columns)
    /\ pending' = [pending EXCEPT ![r] = @ - 1]
    /\ cmd' = NoCmd
    /\ last' = OpArg("columnsLoaded", << r.schema, r.table, columns >>, results.viewMode)
    /\ UNCHANGED << fetches, results, clip, editor, queries >>

ColumnsFailed ==
  \E r \in Requests :
    /\ pending[r] > 0
    /\ pending' = [pending EXCEPT ![r] = @ - 1]
    /\ cmd' = NoCmd
    /\ last' = OpArg("columnsFailed", << r.schema, r.table >>, results.viewMode)
    /\ UNCHANGED << explorer, fetches, results, clip, editor, queries >>

NextTree ==
  \/ TreeSetFocused
  \/ SchemaLoaded
  \/ TreeKey
  \/ ColumnsLoaded
  \/ ColumnsFailed

SpecTree == Init /\ [][NextTree]_vars

(***************************************************************************)
(* The operations of the focused explorer on their own, for larger trees:  *)
(* schema loads, columns attached for any (schema, table), and keys.       *)
(***************************************************************************)
InitTreeNav ==
  /\ results = New
  /\ cmd = NoCmd
  /\ clip = NoClip
  /\ last = Op("ExplorerSetFocused", "", ViewNormal)
  /\ explorer = ExplorerSetFocused(ExplorerNew, TRUE)
  /\ pending = [r \in Requests |-> 0]
  /\ fetches = NoFetches
  /\ queries = << >>
  /\ editor = EditorNew

NavTreeLoad ==
  \E t \in NavSchemaTrees :
    /\ explorer' = SetTree(explorer, t)
    /\ editor' = SetTableNames(editor, AllTableNames(t))
    /\ cmd' = NoCmd
    /\ last' = OpArg("SetTree", << t >>, results.viewMode)
    /\ UNCHANGED << pending, fetches, results, clip, queries >>

\* The (schema, table) pairs some tree of NavSchemaTrees has.
NavRequests ==
  { r \in Requests :
      \E t \in NavSchemaTrees : \E i \in 1..Len(t.Schemas) :
        /\ t.Schemas[i].Name = r.schema
        /\ \E j \in 1..Len(t.Schemas[i].Tables) : t.Schemas[i].Tables[j] = r.table }

NavTreeAttach ==
  \E r \in NavRequests, columns \in ColumnLists :
    /\ explorer' = SetColumns(explorer, r.schema, r.table, columns)
    /\ cmd' = NoCmd
    /\ last' = OpArg("columnsLoaded", << r.schema, r.table, columns >>, results.viewMode)
    /\ UNCHANGED << pending, fetches, results, clip, editor, queries >>

NavTreeKey ==
  \E key \in TreeKeys :
    LET r == ExplorerUpdate(explorer, key)
    IN  /\ explorer' = r.m
        /\ cmd' = r.cmd
        /\ last' = Op("ExplorerKey", key, results.viewMode)
        /\ UNCHANGED << pending, fetches, results, clip, editor, queries >>

NextTreeNav ==
  \/ NavTreeLoad
  \/ NavTreeAttach
  \/ NavTreeKey

SpecTreeNav == InitTreeNav /\ [][NextTreeNav]_vars

(***************************************************************************)
(* The editor pane: the orchestrator moves the focus between the panes,    *)
(* hands the keys of the active editor pane to the editor, caches the      *)
(* table names of a loaded schema and puts the text of a quick query into  *)
(* the editor.                                                             *)
(***************************************************************************)
MaxBufferLen == 7
MaxDownMoves == 2

\* The characters typed into the editor.
TypedKeys == { "u" }

\* The keys pressed only while the dropdown is open.
DropdownKeys == { "up", "down", "enter", "tab", "esc" }

EditorKeys ==
  TypedKeys \cup { "ctrl+space", "up", "down", "enter", "tab", "esc",
                   "backspace", "ctrl+e", "ctrl+k", "ctrl+l" }

\* The text a quick query puts into the editor.
QueryPool ==
  { << "f", "r", "o", "m", " " >>,
    << "s", "e", "l", "e", "c", "t", " " >>,
    << "i", "n" >> }

\* The schema hierarchies loaded while the editor is in use.
EditorSchemaTrees == { SchemaTree(<< Len(TableNames) >>) }

PaneExplorer == "Explorer"
PaneEditor == "Editor"
PaneResults == "Results"

\* Model.activePane, which setFocus keeps equal to the one focused pane.
activePane ==
  IF editor.focused THEN PaneEditor
  ELSE IF results.focused THEN PaneResults
  ELSE PaneExplorer

setFocus(pane) ==
  /\ explorer' = ExplorerSetFocused(explorer, pane = PaneExplorer)
  /\ editor' = EditorSetFocused(editor, pane = PaneEditor)
  /\ results' = SetFocused(results, pane = PaneResults)

\* updateMain on "tab" that the open dropdown does not take.
CyclePane ==
  /\ ~(activePane = PaneEditor /\ editor.showingCompletions)
  /\ setFocus(CASE activePane = PaneExplorer -> PaneEditor
                [] activePane = PaneEditor -> PaneResults
                [] activePane = PaneResults -> PaneExplorer)
  /\ cmd' = NoCmd
  /\ last' = Op("cyclePane", "tab", results.viewMode)
  /\ UNCHANGED << pending, fetches, clip, queries >>

\* updateMain handing a key to the active editor pane.
EditorKey ==
  \E key \in EditorKeys :
    /\ activePane = PaneEditor
    /\ key \in DropdownKeys => editor.showingCompletions
    /\ key \in TypedKeys => Len(Value(editor)) < MaxBufferLen
    /\ key = "down" => editor.completionIndex < MaxDownMoves
    /\ Len(Value(editor)) > MaxBufferLen => key \in { "ctrl+e", "ctrl+k", "ctrl+l" }
    /\ LET ret == EditorUpdate(editor, key)
       IN  /\ editor' = ret.m
           /\ cmd' = ret.cmd
    /\ last' = Op("EditorUpdate", key, results.viewMode)
    /\ UNCHANGED << results, explorer, pending, fetches, clip, queries >>

\* The command that runs a query against the database.
executeQueryCmd(query) == [ type |-> "executeQueryCmd", text |-> query ]

\* Update on explorer.QuickQueryMsg.
QuickQuery ==
  \E query \in QueryPool :
    /\ editor' = SetQuery(editor, query)
    /\ results' = [results EXCEPT !.loading = TRUE]
    /\ cmd' = executeQueryCmd(query)
    /\ last' = OpArg("QuickQueryMsg", << query >>, results.viewMode)
    /\ UNCHANGED << explorer, pending, fetches, clip, queries >>

\* Update on schemaLoadedMsg.
EditorSchemaLoaded ==
  \E t \in EditorSchemaTrees :
    /\ explorer' = SetTree(explorer, t)
    /\ editor' = SetTableNames(editor, AllTableNames(t))
    /\ fetches' = NoFetches
    /\ cmd' = NoCmd
    /\ last' = OpArg("SetTree", << t >>, results.viewMode)
    /\ UNCHANGED << pending, results, clip, queries >>

NextEditor ==
  \/ CyclePane
  \/ EditorKey
  \/ QuickQuery
  \/ EditorSchemaLoaded

SpecEditor == Init /\ [][NextEditor]_vars

(***************************************************************************)
(* The focused editor with the cursor moved inside the text: the keys      *)
(* that move the cursor, type, delete, and open or close the dropdown.     *)
(***************************************************************************)
MaxTextLen == 5

\* The texts in the editor when the cursor keys come into play.
TextPool ==
  { << "i", " ", "i", "n" >>,
    << "o", "r", " ", "i" >>,
    << "i", "n" >> }

TextKeys == { "left", "right", "ctrl+space", "esc", "backspace", "n" }

\* The editor has the focus and one of the texts has been typed into it.
InitText ==
  /\ results = New
  /\ cmd = NoCmd
  /\ clip = NoClip
  /\ last = Op("New", "", ViewNormal)
  /\ explorer = ExplorerNew
  /\ pending = [r \in Requests |-> 0]
  /\ fetches = NoFetches
  /\ queries = << >>
  /\ \E text \in TextPool :
       editor = [EditorSetFocused(EditorNew, TRUE) EXCEPT !.textarea = Textarea(text)]

\* updateMain handing a key to the active editor pane.
TextKey ==
  \E key \in TextKeys :
    /\ activePane = PaneEditor
    /\ key \in TypedChars => Len(Value(editor)) < MaxTextLen
    /\ key = "esc" => editor.showingCompletions
    /\ LET ret == EditorUpdate(editor, key)
       IN  /\ editor' = ret.m
           /\ cmd' = ret.cmd
    /\ last' = Op("EditorUpdate", key, results.viewMode)
    /\ UNCHANGED << results, explorer, pending, fetches, clip, queries >>

NextText == TextKey

SpecText == InitText /\ [][NextText]_vars


(***************************************************************************)
(* Manual format: the focused editor holding any short text of keywords,   *)
(* digits, blanks and the two quote characters, and the format key.        *)
(***************************************************************************)
MaxFormatLen == 4

FormatChars == { "o", "r", "2", " ", "'", "\"" }

FormatTexts == UNION { [1..n -> FormatChars] : n \in 0..MaxFormatLen }

\* The editor has the focus and holds one of the texts.
InitFormat ==
  /\ results = New
  /\ cmd = NoCmd
  /\ clip = NoClip
  /\ last = Op("New", "", ViewNormal)
  /\ explorer = ExplorerNew
  /\ pending = [r \in Requests |-> 0]
  /\ fetches = NoFetches
  /\ queries = << >>
  /\ \E text \in FormatTexts :
       editor = [EditorSetFocused(EditorNew, TRUE) EXCEPT !.textarea = Textarea(text)]

\* updateMain handing ctrl+l to the active editor pane.
FormatKey ==
  /\ activePane = PaneEditor
  /\ LET ret == EditorUpdate(editor, "ctrl+l")
     IN  /\ editor' = ret.m
         /\ cmd' = ret.cmd
  /\ last' = Op("EditorUpdate", "ctrl+l", results.viewMode)
  /\ UNCHANGED << results, explorer, pending, fetches, clip, queries >>

NextFormat == FormatKey

SpecFormat == InitFormat /\ [][NextFormat]_vars

(***************************************************************************)
(* Automatic upper-casing: the focused editor holding any short text, the  *)
(* cursor anywhere in it, and the keys that type a word boundary.          *)
(***************************************************************************)
MaxTypedLen == 3

TypedTextChars == { "o", "r", "2", " " }

TypedTexts == UNION { [1..n -> TypedTextChars] : n \in 0..MaxTypedLen }

\* The keys after which afterTextInput calls autoUppercaseLastWord.
BoundaryKeys == { " ", "enter", ";" }

\* The editor has the focus and holds one of the texts, the cursor at any
\* offset of it.
InitTyped ==
  /\ results = New
  /\ cmd = NoCmd
  /\ clip = NoClip
  /\ last = Op("New", "", ViewNormal)
  /\ explorer = ExplorerNew
  /\ pending = [r \in Requests |-> 0]
  /\ fetches = NoFetches
  /\ queries = << >>
  /\ \E text \in TypedTexts :
       \E cursor \in 0..Len(text) :
         editor = [EditorSetFocused(EditorNew, TRUE) EXCEPT
                     !.textarea = [ value |-> text, cursor |-> cursor ]]

\* updateMain handing a boundary key to the active editor pane.
BoundaryKey ==
  \E key \in BoundaryKeys :
    /\ activePane = PaneEditor
    /\ Len(Value(editor)) <= MaxTypedLen
    /\ LET ret == EditorUpdate(editor, key)
       IN  /\ editor' = ret.m
           /\ cmd' = ret.cmd
    /\ last' = Op("EditorUpdate", key, results.viewMode)
    /\ UNCHANGED << results, explorer, pending, fetches, clip, queries >>

NextTyped == BoundaryKey

SpecTyped == InitTyped /\ [][NextTyped]_vars


(***************************************************************************)
(* The row and cell actions of the focused grid: results whose cells run   *)
(* through every value of the pool (the null sentinel, the empty string,   *)
(* quotes, text wider than a column), the query recorded behind them, and  *)
(* the keys that move the cursor, copy, filter, delete and export.         *)
(***************************************************************************)
\* MkResult with the cells taken from the pool 'shift' places further on.
ShiftedResult(nc, nr, shift) ==
  [ isNil    |-> FALSE,
    Columns  |-> [c \in 1..nc |-> ColumnPool[c]],
    Rows     |-> [r \in 1..nr |-> [c \in 1..nc |-> CellAt(r + shift, c)]],
    RowCount |-> nr ]

CellResults ==
  { ShiftedResult(nc, nr, shift) :
      nc \in 1..MaxCols, nr \in 1..MaxRows, shift \in 0..(Len(CellPool) - 1) }

\* The SQL text recorded as the query behind the result.
CellQueries ==
  { << >>,
    << "s", "e", "l", "e", "c", "t", " ", "*", " ", "f", "r", "o", "m", " ",
       "u", "s", "e", "r", "s", ";" >>,
    << "U", "p", "d", "a", "t", "e", " ", "o", "r", "d", "e", "r", "s", " ",
       "s", "e", "t", " ", "a", "=", "1", " ", "f", "r", "o", "m", " ", "t" >> }

CellKeys == { "j", "l", "c", "y", "t", "e", "f", "D", "enter", "esc" }

\* The grid has the focus and the layout has given it room for one row.
InitCells ==
  /\ \E w \in GridWidths :
       results = SetFocused(SetSize(New, w, 9), TRUE)
  /\ cmd = NoCmd
  /\ clip = NoClip
  /\ last = Op("SetSize", "", ViewNormal)
  /\ explorer = ExplorerNew
  /\ pending = [r \in Requests |-> 0]
  /\ fetches = NoFetches
  /\ queries = << >>
  /\ editor = EditorNew

CellsSetResult == SetResultFrom(CellResults)

\* SetLastQuery with the SQL that produced the result.
CellsSetLastQuery ==
  \E q \in CellQueries :
    /\ results' = SetLastQuery(results, q)
    /\ cmd' = NoCmd
    /\ clip' = NoClip
    /\ last' = Op("SetLastQuery", "", results.viewMode)
    /\ UNCHANGED otherPanes

CellsKey == KeyFrom(CellKeys)

NextCells ==
  \/ CellsSetResult
  \/ CellsSetLastQuery
  \/ CellsKey

SpecCells == InitCells /\ [][NextCells]_vars


(***************************************************************************)
(* Column widths: results whose headers and cells are narrower than the    *)
(* least width, between the two limits, and wider than the greatest.       *)
(***************************************************************************)
HeaderPool ==
  << << "i", "d" >>, Rep("h", 12), Rep("H", 45) >>

\* A result whose headers start 'hshift' places into the header pool and
\* whose cells start 'cshift' places into the cell pool.
WidthResult(nc, nr, hshift, cshift) ==
  [ isNil    |-> FALSE,
    Columns  |-> [c \in 1..nc |-> HeaderPool[((c - 1 + hshift) % Len(HeaderPool)) + 1]],
    Rows     |-> [r \in 1..nr |-> [c \in 1..nc |-> CellAt(r + cshift, c)]],
    RowCount |-> nr ]

WidthResults ==
  { WidthResult(nc, nr, hshift, cshift) :
      nc \in 0..MaxCols, nr \in 0..MaxRows,
      hshift \in 0..(Len(HeaderPool) - 1), cshift \in 0..(Len(CellPool) - 1) }

WidthsSetResult == SetResultFrom(WidthResults)

WidthsKey == KeyFrom({ "j", "l" })

NextWidths ==
  \/ WidthsSetResult
  \/ DoSetError
  \/ WidthsKey

SpecWidths == InitCells /\ [][NextWidths]_vars

(***************************************************************************)
(* Queries in flight: every issued query runs as a command of its own and  *)
(* its outcome comes back to Update as one queryExecutedMsg, in any order. *)
(***************************************************************************)
MaxQueries == 2

SetLoading(m, l) == [m EXCEPT !.loading = l]

\* What service.ExecuteQuery returns for a query: an error or a result set.
QueryOutcomes ==
  { [ err |-> TRUE, result |-> NilResult ] }
    \cup { [ err |-> FALSE, result |-> MkResult(nc, 1) ] : nc \in 1..2 }

\* Update on editor.ExecuteQueryMsg.
ExecuteQuery ==
  \E query \in QueryPool :
    /\ Len(queries) < MaxQueries
    /\ results' = SetLoading(results, TRUE)
    /\ cmd' = executeQueryCmd(query)
    /\ queries' = Append(queries, [ query |-> query, delivered |-> FALSE,
                                    err |-> FALSE, result |-> NilResult ])
    /\ last' = OpArg("ExecuteQueryMsg", << query >>, results.viewMode)
    /\ UNCHANGED << clip, explorer, pending, fetches, editor >>

\* Update on queryExecutedMsg, the outcome of one of the running commands.
QueryExecuted ==
  \E i \in 1..Len(queries), outcome \in QueryOutcomes :
    /\ ~queries[i].delivered
    /\ results' = IF outcome.err
                  THEN SetError(SetLoading(results, FALSE))
                  ELSE SetResult(SetLoading(results, FALSE), outcome.result)
    /\ cmd' = NoCmd
    /\ queries' = [queries EXCEPT ![i] = [ query |-> queries[i].query,
                                           delivered |-> TRUE,
                                           err |-> outcome.err,
                                           result |-> outcome.result ]]
    /\ last' = Op("queryExecutedMsg", "", results.viewMode)
    /\ UNCHANGED << clip, explorer, pending, fetches, editor >>

NextQuery ==
  \/ ExecuteQuery
  \/ QueryExecuted

SpecQuery == Init /\ [][NextQuery]_vars


(***************************************************************************)
(* Properties of the results grid.                                         *)
(***************************************************************************)
IsPrefix(p, s) == Len(p) <= Len(s) /\ SubSeq(s, 1, Len(p)) = p

KeyHandled == last.op = "Key" /\ results.focused

DeleteConfirmed == KeyHandled /\ last.mode = ViewDeleteConfirm /\ last.key \in {"y", "enter"}

FilterPressed == KeyHandled /\ last.mode \in {ViewNormal, ViewRecordDetail} /\ last.key = "f"

\* C1: whatever keys the grid receives, the command it returns never asks for a
\* query to be run; confirming a delete or filtering by value returns nothing or
\* one SetEditorQueryMsg that carries the generated DELETE or SELECT text.
C1_NeverRunsStatement ==
  /\ cmd.type # "ExecuteQueryMsg"
  /\ DeleteConfirmed =>
       cmd = NoCmd \/ (cmd.type = "SetEditorQueryMsg" /\ IsPrefix(StrDeleteFrom, cmd.text))
  /\ FilterPressed =>
       cmd = NoCmd \/ (cmd.type = "SetEditorQueryMsg" /\ IsPrefix(StrSelectFrom, cmd.text))

C1_Witness ==
  DeleteConfirmed /\ cmd.type = "SetEditorQueryMsg" /\ Len(cmd.text) > Len(StrDeleteFrom)

VisibleRowCount == Max(1, results.height - 8)

\* C2: in a pane of fixed height, after any navigation keys the scroll offset is
\* within 0 .. max(0, totalRows - visibleRows) and the cursor row is inside
\* [scroll, scroll + visibleRows), with visibleRows = max(1, paneHeight - 8).
C2_VerticalWindow ==
  /\ 0 <= results.scrollY
  /\ results.scrollY <= Max(0, results.result.RowCount - VisibleRowCount)
  /\ results.scrollY <= results.cursorY
  /\ results.cursorY < results.scrollY + VisibleRowCount

C2_Witness ==
  /\ last.op = "Key" /\ last.key \in {"down", "pgdown"}
  /\ VisibleRowCount > 1
  /\ results.scrollY > 0
  /\ results.cursorY = results.scrollY + VisibleRowCount - 1

HasColumns == ~results.result.isNil /\ Len(results.result.Columns) > 0

HorizontalKeys == { "left", "h", "right", "l", "home", "end" }

CursorInWindow(m) ==
  /\ visibleColumnRange(m)[1] <= m.cursorX
  /\ m.cursorX < visibleColumnRange(m)[2]

Dist(a, b) == IF a > b THEN a - b ELSE b - a

C3_MinimalShift ==
  (last'.op = "Key" /\ last'.key \in HorizontalKeys /\ HasColumns) =>
    IF CursorInWindow([results' EXCEPT !.colOffset = results.colOffset])
    THEN results'.colOffset = results.colOffset
    ELSE \A o \in 0..(Len(results.result.Columns) - 1) :
           Dist(o, results.colOffset) < Dist(results'.colOffset, results.colOffset)
             => ~CursorInWindow([results' EXCEPT !.colOffset = o])

\* C3: in a pane of fixed size the cursor column is always inside the visible
\* column window [from, to), and a horizontal key leaves the left offset alone
\* when the cursor is inside the window at that offset, and otherwise moves it
\* by the smallest amount that brings the cursor inside.
C3_HorizontalWindow ==
  [](HasColumns => CursorInWindow(results)) /\ [][C3_MinimalShift]_vars

C3_Witness ==
  /\ last.op = "Key" /\ last.key \in {"right", "l"}
  /\ results.colOffset > 0
  /\ results.cursorX = visibleColumnRange(results)[2] - 1
  /\ results.cursorX > results.colOffset

RECURSIVE SumPacked(_, _, _)
SumPacked(colWidths, from, to) ==
  IF from >= to THEN 0 ELSE colWidths[from + 1] + 3 + SumPacked(colWidths, from + 1, to)

WindowFrom == visibleColumnRange(results)[1]
WindowTo == visibleColumnRange(results)[2]
WindowCells == SumPacked(results.colWidths, WindowFrom, WindowTo)

\* C4 as stated: the packed widths plus padding of the visible window never
\* exceed the pane width, and the window holds at least one column.
C4_Original ==
  HasColumns => (WindowTo > WindowFrom /\ WindowCells <= results.width)

\* C4 (amended): the visible window holds at least one column whenever the
\* result has columns, and whenever it holds more than one column the sum of
\* (column width + 3) over its columns does not exceed the pane width; only a
\* window of one single column can be wider than the pane.
C4_PackedWindow ==
  HasColumns =>
    /\ WindowTo > WindowFrom
    /\ WindowTo <= Len(results.result.Columns)
    /\ (WindowTo - WindowFrom > 1 => WindowCells <= results.width)

C4_Witness ==
  /\ last.op = "Key"
  /\ HasColumns
  /\ WindowTo - WindowFrom > 1
  /\ WindowTo < Len(results.result.Columns)

\* C5: SetResult and SetError, from any view mode and cursor position, leave the
\* grid in Normal mode with the result replaced (none after SetError), cursor at
\* (0,0), scroll and left column offset 0 and the status message empty.
C5_SetResultResets ==
  last.op \in {"SetResult", "SetError"} =>
    /\ results.viewMode = ViewNormal
    /\ results.cursorY = 0 /\ results.cursorX = 0
    /\ results.scrollY = 0 /\ results.colOffset = 0
    /\ results.statusMessage = << >>
    /\ (last.op = "SetError" => results.result.isNil)
    /\ (last.op = "SetResult" => ~results.result.isNil /\ results.result \in QueryResults)

C5_Witness ==
  /\ last.op = "SetResult" /\ last.mode = ViewRecordDetail
  /\ results.result.RowCount > 0

NormalKey(k) == KeyHandled /\ last.mode = ViewNormal /\ last.key = k

\* C6 as stated: the grid starts in Normal mode without a result, and Enter, y,
\* e and D pressed in Normal mode open the four overlays.
C6_Original ==
  /\ last.op = "New" => (results.viewMode = ViewNormal /\ results.result.isNil)
  /\ NormalKey("enter") => results.viewMode = ViewRecordDetail
  /\ NormalKey("y") => results.viewMode = ViewCopyRowPrompt
  /\ NormalKey("e") => results.viewMode = ViewExportPrompt
  /\ NormalKey("D") => results.viewMode = ViewDeleteConfirm

\* C6 (amended): the grid starts in Normal mode without a result; Enter, y, e
\* and D pressed in Normal mode open RecordDetail, CopyRowPrompt, ExportPrompt
\* and DeleteConfirm when the grid holds a result with at least one column, and
\* leave it in Normal mode otherwise.
C6_OpensOverlays ==
  /\ last.op = "New" => (results.viewMode = ViewNormal /\ results.result.isNil)
  /\ NormalKey("enter") =>
       results.viewMode = (IF HasColumns THEN ViewRecordDetail ELSE ViewNormal)
  /\ NormalKey("y") =>
       results.viewMode = (IF HasColumns THEN ViewCopyRowPrompt ELSE ViewNormal)
  /\ NormalKey("e") =>
       results.viewMode = (IF HasColumns THEN ViewExportPrompt ELSE ViewNormal)
  /\ NormalKey("D") =>
       results.viewMode = (IF HasColumns THEN ViewDeleteConfirm ELSE ViewNormal)

C6_Witness == NormalKey("D") /\ results.viewMode = ViewDeleteConfirm

Overlays == { ViewRecordDetail, ViewCopyRowPrompt, ViewExportPrompt, ViewDeleteConfirm }

EscInOverlay ==
  /\ results.focused
  /\ last'.op = "Key" /\ last'.key = "esc" /\ last'.mode \in Overlays

\* C7: Esc in RecordDetail, CopyRowPrompt, ExportPrompt or DeleteConfirm returns
\* the grid to Normal, emits no command, writes nothing to the clipboard and
\* leaves the result, the cursor, the scroll and the left column offset alone.
C7_EscDiscardsOverlay ==
  [][EscInOverlay =>
       /\ results'.viewMode = ViewNormal
       /\ cmd' = NoCmd
       /\ clip' = NoClip
       /\ results'.result = results.result
       /\ results'.cursorY = results.cursorY
       /\ results'.cursorX = results.cursorX
       /\ results'.scrollY = results.scrollY
       /\ results'.colOffset = results.colOffset]_vars

C7_Witness ==
  /\ KeyHandled /\ last.key = "esc" /\ last.mode = ViewDeleteConfirm
  /\ results.viewMode = ViewNormal
  /\ results.cursorY > 0

FormatKeyPressed ==
  /\ KeyHandled
  /\ \/ last.mode = ViewCopyRowPrompt /\ last.key \in {"j", "c", "t"}
     \/ last.mode = ViewExportPrompt /\ last.key \in {"j", "c"}
     \/ last.mode = ViewDeleteConfirm /\ last.key \in {"y", "enter"}

\* C8: a format key in CopyRowPrompt (j, c, t) or ExportPrompt (j, c) and a
\* confirm key in DeleteConfirm (y, Enter) return the grid to Normal, and after
\* a CopyRowPrompt format key the status message is not empty.
C8_FormatKeyReturnsToNormal ==
  FormatKeyPressed =>
    /\ results.viewMode = ViewNormal
    /\ (last.mode = ViewCopyRowPrompt => results.statusMessage # << >>)

C8_Witness ==
  /\ FormatKeyPressed /\ last.mode = ViewCopyRowPrompt /\ last.key = "t"
  /\ clip.written

(***************************************************************************)
(* Properties of the schema tree.                                          *)
(***************************************************************************)
OnItem == explorer.cursor >= 0 /\ explorer.cursor < Len(explorer.items)

CursorNode == ItemNode(explorer, explorer.cursor)

\* The Table nodes of the current tree that a fetch for r would reach.
TableNodes(r) ==
  LET p == visitTable(explorer, r.schema, r.table)
  IN  IF p = << >> THEN {} ELSE { NodeAt(explorer.tree[1], p) }

\* The step is the focused explorer handling an expand key with the cursor on
\* a collapsed node that can have children.
ExpandStep ==
  /\ last'.op = "ExplorerKey"
  /\ last'.key \in ExpandKeys
  /\ explorer.focused
  /\ OnItem
  /\ CursorNode.Kind # NodeColumn
  /\ ~CursorNode.Expanded

ExpandsTable(r) ==
  /\ ExpandStep
  /\ CursorNode.Kind = NodeTable
  /\ CursorNode.Schema = r.schema
  /\ CursorNode.Name = r.table

EmitsFetch(r) ==
  /\ cmd'.type = "requestColumnsMsg"
  /\ cmd'.Schema = r.schema
  /\ cmd'.Table = r.table

\* C9 as stated: between two loads a fetch for a table is emitted exactly once,
\* on the first expansion of its node: never twice, and once as soon as the
\* node has been expanded.
C9_Original ==
  \A r \in Requests :
    /\ fetches[r] <= 1
    /\ (\E n \in TableNodes(r) : n.Expanded) => fetches[r] = 1

\* C9: a step emits a fetch request for (schema, table) exactly when it expands
\* the collapsed Table node of that name while the node is not loaded; so every
\* expansion made before the columns are attached emits one, the first and each
\* later one, and no expansion emits one once the columns are attached.
C9_FetchOnEachUnloadedExpansion ==
  [][\A r \in Requests : EmitsFetch(r) <=> (ExpandsTable(r) /\ ~CursorNode.Loaded)]_vars

C9_Witness ==
  /\ last.op = "ExplorerKey"
  /\ cmd.type = "requestColumnsMsg"
  /\ fetches[[ schema |-> cmd.Schema, table |-> cmd.Table ]] >= 2
  /\ OnItem
  /\ CursorNode.Kind = NodeTable /\ CursorNode.Expanded /\ ~CursorNode.Loaded

\* C10: expanding a collapsed Table node that is not loaded returns one fetch
\* request with the node's schema and name and puts one fetch under way, and
\* in that same step the node becomes expanded while still unloaded and
\* childless; expanding a Database, a Schema or a loaded Table node returns no
\* command and starts no fetch.
C10_ExpandUnloadedTable ==
  [][ExpandStep =>
       LET node == CursorNode
           after == NodeAt(explorer'.tree[1], explorer.items[explorer.cursor + 1].node)
           req == [ schema |-> node.Schema, table |-> node.Name ]
       IN  /\ after = [node EXCEPT !.Expanded = TRUE]
           /\ IF node.Kind = NodeTable /\ ~node.Loaded
              THEN /\ cmd'.type = "requestColumnsMsg"
                   /\ cmd'.Schema = node.Schema
                   /\ cmd'.Table = node.Name
                   /\ after.Children = << >>
                   /\ pending' = [pending EXCEPT ![req] = @ + 1]
              ELSE /\ cmd' = NoCmd
                   /\ pending' = pending]_vars

C10_Witness ==
  /\ last.op = "ExplorerKey" /\ last.key \in ExpandKeys
  /\ OnItem
  /\ CursorNode.Kind = NodeTable /\ CursorNode.Expanded /\ ~CursorNode.Loaded
  /\ cmd.type = "requestColumnsMsg"
  /\ cmd.Schema = CursorNode.Schema /\ cmd.Table = CursorNode.Name
  /\ pending[[ schema |-> cmd.Schema, table |-> cmd.Table ]] > 0
  /\ fetches[[ schema |-> cmd.Schema, table |-> cmd.Table ]] = 1

\* The paths of the Table nodes named table under a Schema node named schema.
TablePaths(m, schema, table) ==
  IF m.tree = << >> THEN {}
  ELSE LET root == m.tree[1]
       IN  { p \in (1..Len(root.Children)) \X (1..Len(TableNames)) :
               /\ p[2] <= Len(root.Children[p[1]].Children)
               /\ root.Children[p[1]].Name = schema
               /\ root.Children[p[1]].Children[p[2]].Name = table }

ColumnsArrived == last'.op = "columnsLoaded"

\* C11: when the columns of (schema, table) arrive and the tree has a Table
\* node of that schema and name, the node's children become the Column nodes of
\* the arrived columns, in their order, each owned by that schema and table, the
\* node is loaded and nothing else of the tree changes; when the tree has no such
\* node (or there is no tree) the explorer is left exactly as it was.
C11_AttachColumns ==
  [][ColumnsArrived =>
       LET schema == last'.arg[1]
           table == last'.arg[2]
           columns == last'.arg[3]
           paths == TablePaths(explorer, schema, table)
       IN  IF paths = {} THEN explorer' = explorer
           ELSE \A p \in paths :
                  LET node == NodeAt(explorer.tree[1], p)
                      after == NodeAt(explorer'.tree[1], p)
                  IN  /\ after.Loaded
                      /\ Len(after.Children) = Len(columns)
                      /\ \A k \in 1..Len(columns) :
                           /\ after.Children[k].Kind = NodeColumn
                           /\ after.Children[k].Name = columns[k].Name
                           /\ after.Children[k].DataType = columns[k].DataType
                           /\ after.Children[k].Schema = schema
                           /\ after.Children[k].Table = table
                           /\ after.Children[k].Children = << >>
                      /\ explorer'.tree[1] =
                           StoreAt(explorer.tree[1], p,
                                   [node EXCEPT !.Children = after.Children, !.Loaded = TRUE])]_vars

\* Columns arrive for a table that the reloaded tree no longer has.
C11_Witness ==
  /\ last.op = "columnsLoaded"
  /\ explorer.tree # << >>
  /\ Len(explorer.items) > 1
  /\ Len(last.arg[3]) = MaxTreeColumns
  /\ TablePaths(explorer, last.arg[1], last.arg[2]) = {}

\* Every sequence of child indices a tree of the model can hold a node at.
TreeDepth == 3
PathPool ==
  UNION { [1..d -> 1..Max(Len(SchemaNames), Max(Len(TableNames), Len(TreeColumnPool)))] :
          d \in 0..TreeDepth }

\* p leads to a node, and every node above it is expanded.
RECURSIVE Shown(_, _)
Shown(node, p) ==
  \/ p = << >>
  \/ /\ node.Expanded
     /\ Head(p) <= Len(node.Children)
     /\ Shown(node.Children[Head(p)], Tail(p))

\* p comes before q in a pre-order walk: it is an ancestor of q, or it branches
\* off to an earlier child.
PreOrderBefore(p, q) ==
  \/ Len(p) < Len(q) /\ SubSeq(q, 1, Len(p)) = p
  \/ \E i \in 1..Min(Len(p), Len(q)) :
       /\ SubSeq(p, 1, i - 1) = SubSeq(q, 1, i - 1)
       /\ p[i] < q[i]

\* C12: the flattened list holds exactly the nodes whose ancestors are all
\* expanded, each once, in pre-order, each with its distance from the root as
\* depth; without a tree it is empty.
C12_FlattenedIsPreOrder ==
  LET items == explorer.items
  IN  IF explorer.tree = << >> THEN items = << >>
      ELSE /\ { items[i].node : i \in 1..Len(items) } =
                { p \in PathPool : Shown(explorer.tree[1], p) }
           /\ \A i, j \in 1..Len(items) :
                i < j => PreOrderBefore(items[i].node, items[j].node)
           /\ \A i \in 1..Len(items) : items[i].depth = Len(items[i].node)

\* An expanded table shows its columns between itself and a later sibling.
C12_Witness ==
  /\ last.op = "columnsLoaded"
  /\ \E i \in 1..Len(explorer.items) :
       /\ explorer.items[i].depth = TreeDepth
       /\ i < Len(explorer.items)
       /\ explorer.items[Len(explorer.items)].depth < TreeDepth

\* The step is the focused explorer handling a key of K with the cursor on an item.
KeyOnItem(K) ==
  /\ last'.op = "ExplorerKey"
  /\ last'.key \in K
  /\ explorer.focused
  /\ OnItem

CursorPath == explorer.items[explorer.cursor + 1].node

CursorNodeAfter == NodeAt(explorer'.tree[1], CursorPath)

SchemaJustLoaded == last.op = "SetTree"

\* C14: right after a schema load the tree is the skeleton of the loaded
\* hierarchy and nothing else: an expanded Database root named after the
\* database, one collapsed Schema child per schema in input order, under each
\* one collapsed, unloaded, childless Table child per table name in input order
\* that names its schema; and the flattened view is the root followed by the
\* schema nodes.
C14_LoadBuildsSkeleton ==
  SchemaJustLoaded =>
    LET t == last.arg[1]
        root == explorer.tree[1]
    IN  /\ Len(explorer.tree) = 1
        /\ root.Kind = NodeDatabase /\ root.Name = t.Database /\ root.Expanded
        /\ Len(root.Children) = Len(t.Schemas)
        /\ \A i \in 1..Len(t.Schemas) :
             LET s == root.Children[i]
             IN  /\ s.Kind = NodeSchema /\ s.Name = t.Schemas[i].Name /\ ~s.Expanded
                 /\ Len(s.Children) = Len(t.Schemas[i].Tables)
                 /\ \A j \in 1..Len(s.Children) :
                      /\ s.Children[j].Kind = NodeTable
                      /\ s.Children[j].Name = t.Schemas[i].Tables[j]
                      /\ s.Children[j].Schema = s.Name
                      /\ ~s.Children[j].Expanded
                      /\ ~s.Children[j].Loaded
                      /\ s.Children[j].Children = << >>
        /\ explorer.items =
             << flatItem(<< >>, 0) >> \o [i \in 1..Len(t.Schemas) |-> flatItem(<< i >>, 1)]

\* A reload, after the cursor had moved in an earlier tree, of two schemas the
\* first of which has two tables.
C14_Witness ==
  /\ SchemaJustLoaded
  /\ explorer.cursor > 0
  /\ Len(last.arg[1].Schemas) > 1
  /\ Len(last.arg[1].Schemas[1].Tables) > 1

\* C15 as stated: right after a schema load the cursor is on the first item.
C15_CursorResetOnLoad == SchemaJustLoaded => explorer.cursor = 0

\* C16: whenever the flattened view has items the cursor is the index of one
\* of them, and an up key on the first item or a down key on the last leaves
\* the explorer as it was.
C16_CursorInView ==
  /\ [](explorer.items # << >> => OnItem)
  /\ [][( \/ (KeyOnItem({ "up", "k" }) /\ explorer.cursor = 0)
          \/ (KeyOnItem({ "down", "j" }) /\ explorer.cursor = Len(explorer.items) - 1) )
         => explorer' = explorer]_vars

\* A schema load has shrunk the view under a cursor that was further down.
C16_Witness ==
  /\ SchemaJustLoaded
  /\ Len(explorer.items) > 1
  /\ explorer.cursor = Len(explorer.items) - 1

\* C17: with the cursor on a Table node SelectedTable returns the name of the
\* schema node above it and the node's own name; on a Column node the names of
\* the schema and table nodes above it; on a Database or Schema node, or with no
\* item under the cursor, it returns none.
C17_SelectedTable ==
  LET sel == SelectedTable(explorer)
      root == explorer.tree[1]
      owningSchema == NodeAt(root, SubSeq(CursorPath, 1, 1))
      owningTable == NodeAt(root, SubSeq(CursorPath, 1, 2))
  IN  IF OnItem /\ CursorNode.Kind = NodeTable
        THEN sel.ok /\ sel.schema = owningSchema.Name /\ sel.table = CursorNode.Name
                    /\ owningTable = CursorNode
      ELSE IF OnItem /\ CursorNode.Kind = NodeColumn
        THEN sel.ok /\ sel.schema = owningSchema.Name /\ sel.table = owningTable.Name
      ELSE ~sel.ok /\ sel.schema = "" /\ sel.table = ""

\* The cursor is on the second column of a table.
C17_Witness ==
  /\ OnItem
  /\ CursorNode.Kind = NodeColumn
  /\ CursorPath[TreeDepth] > 1
  /\ SelectedTable(explorer).ok

(***************************************************************************)
(* The completion dropdown of the editor.                                  *)
(***************************************************************************)
\* The step is the focused editor handling a key of K.
EditorKeyStep(K) ==
  /\ last'.op = "EditorUpdate"
  /\ last'.key \in K
  /\ editor.focused

OpenKeys == { "ctrl+@", "ctrl+space" }

\* The keys Update hands to the textarea, after which an open dropdown is refreshed.
RefreshKeys == TypedKeys \cup { "backspace" }

\* The step opens the dropdown.
OpenStep == EditorKeyStep(OpenKeys)

\* The step refreshes the open dropdown.
RefreshStep == EditorKeyStep(RefreshKeys) /\ editor.showingCompletions

\* Where the partial text of buffer v begins: the run of identifier characters
\* at the end of v is the part after this offset.
PartialStart(v) ==
  CHOOSE i \in 0..Len(v) :
    /\ \A j \in (i + 1)..Len(v) : isIdentChar(v[j])
    /\ i = 0 \/ ~isIdentChar(v[i])

PartialText(v) == SubSeq(v, PartialStart(v) + 1, Len(v))

\* The candidate list recomputed for the buffer of model m.
Recomputed(m) == getSuggestions(m, PartialText(Value(m)), PartialStart(Value(m)))

\* C18: in every reachable state an open dropdown has a non-empty candidate
\* list and a selected index with 0 <= index < length of the list; an open or
\* a refresh whose recomputed list is empty leaves the dropdown closed; a
\* refresh whose list shrank below the selected index puts the index on the
\* last candidate.
C18_DropdownWellFormed ==
  /\ [](editor.showingCompletions =>
          /\ Len(editor.completions) > 0
          /\ 0 <= editor.completionIndex
          /\ editor.completionIndex < Len(editor.completions))
  /\ [][((OpenStep \/ RefreshStep) /\ Recomputed(editor') = << >>
           => ~editor'.showingCompletions /\ editor'.completions = << >>)
        /\ (RefreshStep /\ editor'.showingCompletions
              /\ editor.completionIndex >= Len(editor'.completions)
              => editor'.completionIndex = Len(editor'.completions) - 1)]_vars

\* A refresh has left the dropdown open on a list of one candidate, of the
\* table names that follow FROM.
C18_Witness ==
  /\ last.op = "EditorUpdate"
  /\ last.key \in RefreshKeys
  /\ editor.focused
  /\ editor.showingCompletions
  /\ Len(editor.completions) = 1
  /\ editor.completionIndex = 0
  /\ editor.completions[1] \in { editor.tableNames[i] : i \in 1..Len(editor.tableNames) }

KeywordSet == { sqlKeywordList[i] : i \in 1..Len(sqlKeywordList) }

KnownTables(m) == { m.tableNames[i] : i \in 1..Len(m.tableNames) }

\* C19: after every open or refresh, each candidate is a keyword of the
\* list, a known table name or "*", has the partial text as a prefix when
\* case is ignored, no two candidates are equal when case is ignored, the
\* list is in ascending order and it has at most 10 candidates.
C19_CandidateList ==
  [][OpenStep \/ RefreshStep =>
       LET list == editor'.completions
           partial == ToLower(PartialText(Value(editor')))
       IN  /\ \A i \in 1..Len(list) :
                /\ list[i] \in KeywordSet \cup KnownTables(editor') \cup { StrStar }
                /\ HasPrefix(ToLower(list[i]), partial)
           /\ \A i, j \in 1..Len(list) : i # j => ToLower(list[i]) # ToLower(list[j])
           /\ \A i \in 1..(Len(list) - 1) : StrLess(list[i], list[i + 1])
           /\ Len(list) <= 10]_vars

\* The dropdown was opened on more candidates than it shows, table names
\* being known: it holds the 10 least.
C19_Witness ==
  /\ last.op = "EditorUpdate"
  /\ last.key \in OpenKeys
  /\ editor.showingCompletions
  /\ Len(editor.completions) = 10
  /\ KnownTables(editor) # {}

\* The last whitespace-delimited token of s, << >> when s has none.
LastToken(s) ==
  LET words == { i \in 1..Len(s) : ~IsSpace(s[i]) }
      end == CHOOSE i \in words : \A j \in words : j <= i
      begin == CHOOSE i \in 1..end :
                 /\ \A j \in i..end : ~IsSpace(s[j])
                 /\ i = 1 \/ IsSpace(s[i - 1])
  IN  IF words = {} THEN << >> ELSE SubSeq(s, begin, end)

\* The pool of candidates that follows token.
Pool(m, token) ==
  IF token \in TableContexts THEN KnownTables(m)
  ELSE IF token = StrSELECT THEN { StrStar } \cup KeywordSet \cup KnownTables(m)
  ELSE KeywordSet \cup KnownTables(m)

\* C20: the candidates come from a pool that the last whitespace-delimited
\* token of the upper-cased text before the partial text decides: table names
\* only after FROM, JOIN, INTO, UPDATE or TABLE; "*", the keywords and the
\* table names after SELECT; the keywords and the table names, never "*",
\* anywhere else.  Every candidate is of the pool, and every name of the
\* pool that the partial text matches is in the list, in the case of one of
\* its occurrences, unless the cut to 10 candidates removed it.
C20_PoolByContext ==
  [][OpenStep \/ RefreshStep =>
       LET v == Value(editor')
           list == editor'.completions
           shown == { list[i] : i \in 1..Len(list) }
           partial == ToLower(PartialText(v))
           token == LastToken(ToUpper(SubSeq(v, 1, PartialStart(v))))
           pool == Pool(editor', token)
       IN  /\ shown \subseteq pool
           /\ token \in TableContexts => shown \cap (KeywordSet \cup { StrStar }) = {}
           /\ token # StrSELECT => StrStar \notin shown
           /\ \A c \in pool :
                c # << >> /\ HasPrefix(ToLower(c), partial)
                  => \/ \E d \in shown : ToLower(d) = ToLower(c)
                     \/ /\ Len(list) = 10
                        /\ \E first \in pool :
                             /\ ToLower(first) = ToLower(c)
                             /\ \A d \in shown : StrLess(d, first)]_vars

\* The dropdown was opened after SELECT: "*" leads the list.
C20_Witness ==
  /\ last.op = "EditorUpdate"
  /\ last.key \in OpenKeys
  /\ editor.showingCompletions
  /\ LastToken(ToUpper(SubSeq(Value(editor), 1, PartialStart(Value(editor))))) = StrSELECT
  /\ editor.completions[1] = StrStar
  /\ KnownTables(editor) # {}

(***************************************************************************)
(* Accepting and moving in the dropdown.                                   *)
(***************************************************************************)
AcceptKeys == { "enter", "tab" }

\* The step is Accept: enter or tab while the dropdown is open.
AcceptStep == EditorKeyStep(AcceptKeys) /\ editor.showingCompletions

\* The candidate under the selection of model m.
SelectedCandidate(m) == m.completions[m.completionIndex + 1]

\* C21: Accept replaces the buffer by its first 'start' bytes followed by the
\* selected candidate, start being the stored offset of the partial
\* identifier, and leaves the dropdown closed.
C21_AcceptSplices ==
  [][AcceptStep =>
       /\ editor.completionStartByte <= Len(Value(editor))
       /\ Value(editor') = SubSeq(Value(editor), 1, editor.completionStartByte)
                             \o SelectedCandidate(editor)
       /\ ~editor'.showingCompletions]_vars

\* The step is MoveSelection(-1) or MoveSelection(+1): up or down while the
\* dropdown is open.
MoveStep(key) == EditorKeyStep({ key }) /\ editor.showingCompletions

LastIndex(m) == Len(m.completions) - 1

\* C22: while the dropdown is open, up at index 0 and down at the last index
\* leave the selected index unchanged; otherwise the index changes by
\* exactly one; the buffer and the candidate list are unchanged, and the
\* dropdown stays open.
C22_MoveSelectionClamps ==
  [][/\ MoveStep("up") =>
          editor'.completionIndex =
            IF editor.completionIndex = 0 THEN 0 ELSE editor.completionIndex - 1
     /\ MoveStep("down") =>
          editor'.completionIndex =
            IF editor.completionIndex = LastIndex(editor)
              THEN editor.completionIndex ELSE editor.completionIndex + 1
     /\ MoveStep("up") \/ MoveStep("down") =>
          /\ editor'.textarea = editor.textarea
          /\ editor'.completions = editor.completions
          /\ editor'.showingCompletions]_vars

\* Down was pressed on the last of several candidates and the selection is
\* still on it.
C22_Witness ==
  /\ last.op = "EditorUpdate"
  /\ last.key = "down"
  /\ editor.focused
  /\ editor.showingCompletions
  /\ Len(editor.completions) > 1
  /\ editor.completionIndex = LastIndex(editor)
  /\ cmd = NoCmd

(***************************************************************************)
(* The partial identifier at the cursor.                                   *)
(***************************************************************************)
\* Where the run of identifier characters that ends at the cursor of
\* textarea ta begins.
CursorPartialStart(ta) ==
  CHOOSE i \in 0..ta.cursor :
    /\ \A j \in (i + 1)..ta.cursor : isIdentChar(ta.value[j])
    /\ i = 0 \/ ~isIdentChar(ta.value[i])

CursorPartialText(ta) == SubSeq(ta.value, CursorPartialStart(ta) + 1, ta.cursor)

\* C23: after an open or a refresh that leaves the dropdown open, the stored
\* start offset is where the run of identifier characters ending at the
\* cursor begins, and the candidates are those of that run as prefix.
C23_PrefixBeforeCursor ==
  [][(OpenStep \/ RefreshStep) /\ editor'.showingCompletions =>
       /\ editor'.completionStartByte = CursorPartialStart(editor'.textarea)
       /\ editor'.completions =
            getSuggestions(editor', CursorPartialText(editor'.textarea),
                           CursorPartialStart(editor'.textarea))]_vars

(***************************************************************************)
(* The row and cell actions of the grid.                                   *)
(***************************************************************************)
\* The step is the focused grid handling key in view mode mode.
GridKeyStep(mode, key) ==
  /\ last'.op = "Key"
  /\ last'.mode = mode
  /\ last'.key = key
  /\ results.focused

\* The row under the cursor of grid m.
CursorRow(m) == m.result.Rows[m.cursorY + 1]

\* The JSON value of a cell: null for the sentinel, else the cell as a string.
JSONValue(cell) == IF cell = StrNull THEN StrNull ELSE JSONString(cell)

\* The JSON object with one member per column, in the order of the column
\* list, whose value is that of the cell at the column's position.
JSONObject(columns, row) ==
  << "{" >>
  \o Join([i \in 1..Len(columns) |->
             JSONString(columns[i]) \o << ":", " " >> \o JSONValue(row[i])],
          << ",", " " >>)
  \o << "}" >>

\* C24: the JSON text of a row is the object whose keys are the column names
\* in column-list order, the value of each being the JSON string of the cell
\* at the same position, or JSON null when that cell is the sentinel "null":
\* copying the cursor row as JSON writes exactly that text to the clipboard.
C24_RowToJSONKeepsOrder ==
  [][GridKeyStep(ViewCopyRowPrompt, "j") /\ clip'.written =>
       clip'.text = JSONObject(results.result.Columns, CursorRow(results))]_vars

\* The second row of a two-column result, whose second cell is the null
\* sentinel, has been copied as JSON.
C24_Witness ==
  /\ last.op = "Key"
  /\ last.mode = ViewCopyRowPrompt
  /\ last.key = "j"
  /\ clip.written
  /\ results.cursorY = 1
  /\ Len(results.result.Columns) = 2
  /\ CursorRow(results)[2] = StrNull
  /\ CursorRow(results)[1] # StrNull

\* The step is copy-cell: "c" in Normal mode, on the cell under the cursor,
\* or in RecordDetail mode, on the field under the menu cursor.
CopyCellStep ==
  GridKeyStep(ViewNormal, "c") \/ GridKeyStep(ViewRecordDetail, "c")

\* The cell that copy-cell is about in grid m.
CopiedCell(m) ==
  getCellValueAt(m, m.cursorY,
                 IF m.viewMode = ViewRecordDetail THEN m.menuCursor ELSE m.cursorX)

\* C25: copy-cell on a cell that is the null sentinel or empty writes nothing
\* to the clipboard and sets the status message to 'Nothing to copy'; on any
\* other cell the text written to the clipboard is exactly the cell's text.
C25_CopyCellSkipsNull ==
  [][CopyCellStep =>
       IF CopiedCell(results) \in { StrNull, << >> }
         THEN /\ ~clip'.written
              /\ results'.statusMessage = StrNothingToCopy
         ELSE clip'.written => clip'.text = CopiedCell(results)]_vars

\* The step is filter-by-value: "f" in Normal mode, on the cell under the
\* cursor, or in RecordDetail mode, on the field under the menu cursor.
FilterStep ==
  GridKeyStep(ViewNormal, "f") \/ GridKeyStep(ViewRecordDetail, "f")

\* The column filter-by-value is about in grid m, counted from 1.
FilterColumn(m) ==
  (IF m.viewMode = ViewRecordDetail THEN m.menuCursor ELSE m.cursorX) + 1

TableKeywords == { StrFROM, StrINTO, StrUPDATE }

\* The positions of the FROM, INTO and UPDATE tokens of query q, in any
\* case, that another token follows.
KeywordPositions(q) ==
  { i \in 1..(Len(Fields(q)) - 1) : ToUpper(Fields(q)[i]) \in TableKeywords }

\* The token after the first of them, without the punctuation that ends it.
TableAfterKeyword(q) ==
  LET first == CHOOSE i \in KeywordPositions(q) : \A j \in KeywordPositions(q) : i <= j
  IN  TrimRight(Fields(q)[first + 1], { ";", ",", "(", ")" })

\* col = 'value with every single quote doubled', or col IS NULL for the
\* null sentinel.
Predicate(col, value) ==
  IF value = StrNull THEN col \o << " ", "I", "S", " ", "N", "U", "L", "L" >>
  ELSE col \o << " ", "=", " ", "'" >> \o ReplaceAll(value, "'", << "'", "'" >>) \o << "'" >>

DeleteStep ==
  GridKeyStep(ViewDeleteConfirm, "y") \/ GridKeyStep(ViewDeleteConfirm, "enter")

\* The table the generated statements name for grid m.
StatementTable(m) ==
  IF KeywordPositions(m.lastQuery) # {} THEN TableAfterKeyword(m.lastQuery)
  ELSE << "<", "t", "a", "b", "l", "e", ">" >>

ReviewComment ==
  << "-", "-", " ", "r", "e", "v", "i", "e", "w", " ", "b", "e", "f", "o", "r", "e", " ",
     "e", "x", "e", "c", "u", "t", "i", "n", "g", "!", "\n" >>

\* C27: delete-row generation for the cursor row produces the reviewer
\* comment line followed by DELETE FROM <table> WHERE and exactly one
\* predicate per column of the result set, in column order and joined by
\* AND, each predicate being col = '<value with single quotes doubled>', or
\* col IS NULL when the cell is the null sentinel.
C27_DeleteSpansEveryColumn ==
  [][DeleteStep /\ rowInRange(results) =>
       cmd' = SetEditorQueryMsg(
                ReviewComment
                \o << "D", "E", "L", "E", "T", "E", " ", "F", "R", "O", "M", " " >>
                \o StatementTable(results)
                \o << " ", "W", "H", "E", "R", "E", " " >>
                \o Join([i \in 1..Len(results.result.Columns) |->
                           Predicate(results.result.Columns[i], CursorRow(results)[i])],
                        << " ", "A", "N", "D", " " >>))]_vars

\* The delete statement of a two-column row has been generated, one of whose
\* cells is the null sentinel and the other is not.
C27_Witness ==
  /\ last.op = "Key"
  /\ last.mode = ViewDeleteConfirm
  /\ last.key \in { "y", "enter" }
  /\ cmd.type = "SetEditorQueryMsg"
  /\ Len(results.result.Columns) = 2
  /\ \E i, j \in 1..2 : CursorRow(results)[i] = StrNull /\ CursorRow(results)[j] # StrNull

\* The step is an export requested from the export prompt in the format
\* that key stands for.
ExportStep(key) == GridKeyStep(ViewExportPrompt, key)

\* The JSON file of result r: the array of the objects of all its rows.
JSONFile(r) ==
  << "[", "\n" >>
  \o Join([i \in 1..Len(r.Rows) |-> << " ", " " >> \o JSONObject(r.Columns, r.Rows[i])],
          << ",", "\n" >>)
  \o << "\n", "]" >>

\* The CSV file of result r: the line of the column names, then one line
\* per row.
CSVFile(r) ==
  Join([i \in 1..(Len(r.Rows) + 1) |->
          IF i = 1 THEN csvRecord(r.Columns) ELSE csvRecord(r.Rows[i - 1])],
       << >>)

\* C28: an export requested from the export prompt holds every row of the
\* current result set, in row order and with the columns in column-list
\* order (JSON: the array of the row objects; CSV: the header line, then all
\* rows), whatever the cursor, the scroll offsets and the visible window.
C28_ExportHoldsEveryRow ==
  [][/\ ExportStep("j") => cmd' = ExportFileCmd("exportJSON", JSONFile(results.result))
     /\ ExportStep("c") => cmd' = ExportFileCmd("exportCSV", CSVFile(results.result))]_vars

\* A result of two rows has been exported as JSON from a grid that shows
\* one row, scrolled to the second.
C28_Witness ==
  /\ last.op = "Key"
  /\ last.mode = ViewExportPrompt
  /\ last.key = "j"
  /\ cmd.type = "exportJSON"
  /\ Len(results.result.Rows) = 2
  /\ visibleRows(results) = 1
  /\ results.scrollY = 1
  /\ results.cursorY = 1

(***************************************************************************)
(* The cached column widths.                                               *)
(***************************************************************************)
\* The display widths of the header of column i of result r and of the
\* cells of that column in all rows.
ColumnWidthsOf(r, i) ==
  { Width(r.Columns[i]) } \cup { Width(r.Rows[k][i]) : k \in 1..Len(r.Rows) }

Widest(S) == CHOOSE w \in S : \A v \in S : v <= w

\* C29: after SetResult the cached width of each column is the greater of
\* the header's display width and the widest display width of the column's
\* cells over all rows of the result set, brought into [8,40].
C29_WidthsFromWholeResult ==
  last.op = "SetResult" =>
    /\ Len(results.colWidths) = Len(results.result.Columns)
    /\ \A i \in 1..Len(results.result.Columns) :
         results.colWidths[i] =
           Max(8, Min(40, Widest(ColumnWidthsOf(results.result, i))))

\* SetResult has cached, for one result: a width set by the header, a width
\* set by a cell of the second row, the least width and the greatest.
C29_Witness ==
  /\ last.op = "SetResult"
  /\ Len(results.result.Rows) = 2
  /\ \E i \in 1..Len(results.colWidths) :
       /\ results.colWidths[i] = Width(results.result.Columns[i])
       /\ \A k \in 1..2 : Width(results.result.Rows[k][i]) < results.colWidths[i]
  /\ \E i \in 1..Len(results.colWidths) :
       /\ results.colWidths[i] = Width(results.result.Rows[2][i])
       /\ Width(results.result.Rows[1][i]) < results.colWidths[i]
       /\ Width(results.result.Columns[i]) < results.colWidths[i]

(***************************************************************************)
(* Manual format.                                                          *)
(***************************************************************************)
FormatStep == EditorKeyStep({ "ctrl+l" })

\* The literal that is open after the first i characters of text v: "" when
\* none is, else the quote character that opened it.
RECURSIVE OpenQuote(_, _)
OpenQuote(v, i) ==
  IF i = 0 THEN ""
  ELSE LET before == OpenQuote(v, i - 1)
       IN  IF before = "" THEN (IF v[i] \in { "'", "\"" } THEN v[i] ELSE "")
           ELSE IF v[i] = before THEN "" ELSE before

\* Character i of v belongs to a literal: to its contents or to its quotes.
InLiteral(v, i) == OpenQuote(v, i - 1) # "" \/ OpenQuote(v, i) # ""

IsTokenChar(c) == IsLetter(c) \/ IsDigit(c) \/ c = "_"

\* v[a..b] is a token outside the literals: a run of letters, digits and
\* underscores that no such character precedes or follows.
IsToken(v, a, b) ==
  /\ a <= b
  /\ \A i \in a..b : IsTokenChar(v[i]) /\ ~InLiteral(v, i)
  /\ a = 1 \/ ~IsTokenChar(v[a - 1]) \/ InLiteral(v, a - 1)
  /\ b = Len(v) \/ ~IsTokenChar(v[b + 1]) \/ InLiteral(v, b + 1)

\* C30: manual format uppercases every reserved-keyword token outside the
\* string literals and leaves every character of a single- or double-quoted
\* literal unchanged; inside a literal opened by one quote character the
\* other quote character does not close it, and a literal that is not
\* closed protects the rest of the buffer.
C30_FormatSkipsLiterals ==
  [][FormatStep =>
       LET v == Value(editor)
           w == Value(editor')
       IN  /\ Len(w) = Len(v)
           /\ \A i \in 1..Len(v) : InLiteral(v, i) => w[i] = v[i]
           /\ \A a, b \in 1..Len(v) :
                IsToken(v, a, b) /\ ToLower(SubSeq(v, a, b)) \in sqlKeywords
                  => SubSeq(w, a, b) = ToUpper(SubSeq(v, a, b))]_vars

\* A text has been formatted in which a single quote opens a literal, the
\* double quote after it does not close it, and the keyword that follows is
\* still in lower case at the end of the buffer.
C30_Witness ==
  /\ last.op = "EditorUpdate"
  /\ last.key = "ctrl+l"
  /\ editor.focused
  /\ Value(editor) = << "'", "\"", "o", "r" >>

(***************************************************************************)
(* Automatic upper-casing of the word just typed.                          *)
(***************************************************************************)
\* The step types a word boundary into the text: a space, a newline or a
\* semicolon, the dropdown being closed.
BoundaryStep == EditorKeyStep(BoundaryKeys) /\ ~editor.showingCompletions

\* The character a boundary key types.
BoundaryChar(key) == IF key = "enter" THEN "\n" ELSE key

\* Where the word that ends at offset c of text v begins: the run of
\* letters and underscores before c is the part after this offset.
WordStart(v, c) ==
  CHOOSE a \in 0..c :
    /\ \A j \in (a + 1)..c : IsWordChar(v[j])
    /\ a = 0 \/ ~IsWordChar(v[a])

\* Word w, in upper case if it is a reserved keyword in any case.
Uppercased(w) == IF ToLower(w) \in sqlKeywords THEN ToUpper(w) ELSE w

\* C31: when a space, a newline or a semicolon is typed, the word that ends
\* immediately before the typed character is rewritten to upper case if and
\* only if it is a reserved keyword in any case, and no other character of
\* the buffer changes.
C31_UppercasesWordBeforeTypedChar ==
  [][BoundaryStep =>
       LET v == Value(editor)
           c == editor.textarea.cursor
           a == WordStart(v, c)
       IN  Value(editor') =
             SubSeq(v, 1, a) \o Uppercased(SubSeq(v, a + 1, c))
             \o << BoundaryChar(last'.key) >> \o SubSeq(v, c + 1, Len(v))]_vars

(***************************************************************************)
(* The actions available in RecordDetail mode.                             *)
(***************************************************************************)
\* C32: every row/cell action can be triggered from RecordDetail mode as it
\* can from Normal mode: c copies the cell (or reports why not), f emits the
\* filter suggestion, and y, e and D open the copy-row prompt, the export
\* prompt and the delete confirmation, from which the row copies, the
\* exports and the delete statement are triggered.
C32_ActionsInRecordDetail ==
  [][/\ GridKeyStep(ViewRecordDetail, "c") =>
          clip'.written \/ results'.statusMessage # << >>
     /\ GridKeyStep(ViewRecordDetail, "f") => cmd'.type = "SetEditorQueryMsg"
     /\ GridKeyStep(ViewRecordDetail, "y") => results'.viewMode = ViewCopyRowPrompt
     /\ GridKeyStep(ViewRecordDetail, "e") => results'.viewMode = ViewExportPrompt
     /\ GridKeyStep(ViewRecordDetail, "D") => results'.viewMode = ViewDeleteConfirm]_vars

(***************************************************************************)
(* Invariants of the results grid.                                         *)
(***************************************************************************)
TotalRows == IF results.result.isNil THEN 0 ELSE Len(results.result.Rows)

TotalColumns == IF results.result.isNil THEN 0 ELSE Len(results.result.Columns)

\* C33: in every reachable state of the grid (any sequence of SetResult,
\* SetError, SetSize and keys, the clipboard failing or not) the cursor is
\* within bounds: 0 <= cursorRow < max(1, rows) and
\* 0 <= cursorColumn < max(1, columns).
C33_CursorWithinBounds ==
  /\ 0 <= results.cursorY
  /\ results.cursorY < Max(1, TotalRows)
  /\ 0 <= results.cursorX
  /\ results.cursorX < Max(1, TotalColumns)

\* A copy whose clipboard write failed, with the cursor on the last cell of
\* the last row of a result of several rows and columns.
C33_Witness ==
  /\ KeyHandled
  /\ last.key = "c"
  /\ IsPrefix(StrCopyFailed, results.statusMessage)
  /\ TotalRows > 1
  /\ TotalColumns > 1
  /\ results.cursorY = TotalRows - 1
  /\ results.cursorX = TotalColumns - 1

\* C34: the vertical window invariant (scroll <= cursorRow < scroll +
\* visibleRows and scroll <= max(0, rows - visibleRows)) holds immediately
\* after every SetSize, before any further key is pressed.
C34_WindowAfterSetSize ==
  last.op = "SetSize" =>
    /\ results.scrollY <= results.cursorY
    /\ results.cursorY < results.scrollY + VisibleRowCount
    /\ results.scrollY <= Max(0, TotalRows - VisibleRowCount)

\* C35: whenever the dropdown is open, the stored start offset is the start
\* of the trailing identifier run of the current buffer, also after SetQuery
\* replaced the buffer or the editor lost focus.
C35_StartMatchesBuffer ==
  editor.showingCompletions =>
    editor.completionStartByte = PartialStart(Value(editor))

\* C36: after every SetResult and every SetError the cached column widths
\* belong to the current result: one width per column of the result, and no
\* width when there is no result set (after SetError) or it has no columns.
C36_WidthsMatchResult ==
  last.op \in { "SetResult", "SetError" } =>
    Len(results.colWidths) = TotalColumns

(***************************************************************************)
(* Queries whose outcomes arrive in any order.                             *)
(***************************************************************************)
\* Every issued query has had its outcome delivered.
AllDelivered == \A i \in 1..Len(queries) : queries[i].delivered

\* The grid shows the outcome delivered for query q.
Shows(q) ==
  /\ results.err = q.err
  /\ results.result = q.result

\* C37: when two or more queries were issued and the outcome of each has been
\* delivered, the grid shows the outcome of the query issued last, whatever
\* the order in which the outcomes arrived.
C37_LatestQueryShown ==
  (Len(queries) >= 2 /\ AllDelivered) => Shows(queries[Len(queries)])

(***************************************************************************)
(* Column fetches that fail.                                               *)
(***************************************************************************)
\* The step is the orchestrator handling the error outcome of a column fetch.
FetchFailedStep == last'.op = "columnsFailed"

\* The step expands the unloaded Table node of r right after the key that
\* collapsed it.
ReExpandsTable(r) ==
  /\ ExpandsTable(r)
  /\ ~CursorNode.Loaded
  /\ last.op = "ExplorerKey"
  /\ last.key \in CollapseKeys \cup ExpandKeys

\* C38: a column fetch that fails leaves the tree exactly as it was (the
\* expanded Table node stays expanded, unloaded and childless); collapsing the
\* unloaded Table node and expanding it again emits a new fetch request for
\* the same (schema, table) and puts one more fetch under way.
C38_FailedFetchCanBeRetried ==
  [][/\ FetchFailedStep => explorer' = explorer
     /\ \A r \in Requests :
          ReExpandsTable(r) => EmitsFetch(r) /\ pending'[r] = pending[r] + 1]_vars

\* The one fetch emitted for the table since the load has failed, and the
\* re-expansion of its still unloaded node has just emitted the second.
C38_Witness ==
  /\ last.op = "ExplorerKey" /\ last.key \in ExpandKeys
  /\ OnItem
  /\ CursorNode.Kind = NodeTable /\ CursorNode.Expanded /\ ~CursorNode.Loaded
  /\ CursorNode.Children = << >>
  /\ cmd.type = "requestColumnsMsg"
  /\ cmd.Schema = CursorNode.Schema /\ cmd.Table = CursorNode.Name
  /\ fetches[[ schema |-> cmd.Schema, table |-> cmd.Table ]] = 2
  /\ pending[[ schema |-> cmd.Schema, table |-> cmd.Table ]] = 1

\* C39: whenever the grid is in RecordDetail or DeleteConfirm mode the cursor
\* row exists (0 <= cursorRow < number of rows), and a confirmed DeleteConfirm
\* returns the SetEditorQueryMsg that carries the DELETE statement.
C39_OverlayHasRow ==
  /\ results.viewMode \in { ViewRecordDetail, ViewDeleteConfirm } =>
       (0 <= results.cursorY /\ results.cursorY < TotalRows)
  /\ DeleteConfirmed => cmd.type = "SetEditorQueryMsg"

\* C40: manual format changes a character only inside an identifier token (a
\* maximal run of letters, digits and underscores) that as a whole equals a
\* reserved keyword; a token that only begins with a keyword, such as from2
\* or key1, is left unchanged.
C40_FormatWholeTokensOnly ==
  [][FormatStep =>
       LET v == Value(editor)
           w == Value(editor')
       IN  /\ Len(w) = Len(v)
           /\ \A i \in 1..Len(v) :
                w[i] # v[i] =>
                  \E a \in 1..i, b \in i..Len(v) :
                    /\ IsToken(v, a, b)
                    /\ ToLower(SubSeq(v, a, b)) \in sqlKeywords]_vars

============================================================================
